---- MODULE Spec2Model ----
(***************************************************************************)
(* A model of wheremegaskip: the read-through location cache of            *)
(* getSkipLocations (package-level Cache guarded by a sync.RWMutex), the   *)
(* two Cacher backends (MemoryCache, RedisCache), scrapeCouncilWebsite    *)
(* (date filter, geocoding loop, parser of location lines), and the        *)
(* calendar feed handlers.                                                 *)
(***************************************************************************)
EXTENDS Integers, Sequences, FiniteSets, TLC

VARIABLES
    now,            \* the wall clock, in ticks (time.Now())
    envTTL,         \* os.Getenv("CACHE_TTL_MINUTES"), already in ticks
    cacheData,      \* cache.data
    cacheTimestamp, \* cache.timestamp
    cacheTTL,       \* cache.ttl
    readers,        \* goroutines holding cache.mu for reading
    writers,        \* goroutines that own the writer side of cache.mu
    pc,             \* position of each request goroutine
    locs,           \* getSkipLocations' local `locations`
    ret,            \* what getSkipLocations returned to the request
    hist,           \* history of the current call (what its checks saw)
    lastGood,       \* history: the last pair a refresh finished writing
    memData,        \* MemoryCache.data
    redisStore,     \* the keys held by the remote store behind RedisCache
    lastOp,         \* the last Cacher operation and what each backend returned
    rtPc,           \* position of each read-through call (Cacher-based service)
    rtRet,          \* what each read-through call returned
    rtHist,         \* history of each read-through call
    rtMutex,        \* holders of the read-through exclusive section
    parsed,         \* scrapeCouncilWebsite's `locations`, parsed from the page
    zone,           \* offset of Europe/London from UTC, in hours
    filtered,       \* scrapeCouncilWebsite's `filtered`
    scrapePc,       \* position of the scrape
    geoIdx,         \* the geocoding loop's index into `filtered`, from 1
    geoWake,        \* the earliest instant the current time.Sleep returns
    geoCalls,       \* history: the geocodePostcode calls made, in order
    survivors,      \* history: `filtered` as the date filter left it
    scrapeRet,      \* what scrapeCouncilWebsite returned
    element,        \* the page element parseLocations is given
    calPc,          \* position of the calendar handler
    calReq,         \* the calendar request: which feed, and for which user
    calLocations,   \* the handler's `locations`, from getSkipLocations
    calGroups,      \* the handler's `groups`
    calEvents,      \* the handler's `events`
    calFeed,        \* the lines of the feed the handler writes
    calOrder,       \* history: the order `range groups` yielded the dates in
    calNearest,     \* what a call of findNearestSkipForDate returned
    escIn,          \* the text escapeICalText is given
    escOut,         \* the text escapeICalText returns
    hPc,            \* position of each request inside Handler
    hReq,           \* r.URL.Path of each request
    hResp,          \* what each request's handler wrote to w
    hLog,           \* history: the calls each request's handler has made
    hGeo            \* the outbound calls of each caller's scrape

svcVars == <<envTTL, cacheData, cacheTimestamp, cacheTTL, readers, writers,
             pc, locs, ret, hist, lastGood>>

backendVars == <<memData, redisStore, lastOp>>

rtVars == <<rtPc, rtRet, rtHist, rtMutex>>

geoVars == <<geoIdx, geoWake, geoCalls, survivors, scrapeRet>>

pageVars == <<element>>

scrapeVars == <<parsed, zone, filtered, scrapePc, geoVars, pageVars>>

escVars == <<escIn, escOut>>

hVars == <<hPc, hReq, hResp, hLog, hGeo>>

calCoreVars == <<calPc, calReq, calLocations, calGroups, calEvents, calFeed,
                 calOrder, calNearest, escVars>>

calVars == <<calCoreVars, hVars>>

vars == <<now, svcVars, backendVars, rtVars, scrapeVars, calVars>>

----------------------------------------------------------------------------
(* Bounds *)

NumProcs == 2
MaxTime == 2

Procs == 1 .. NumProcs

----------------------------------------------------------------------------
(* Go values *)

\* A []SkipLocation: nil and the empty slice are different values.
NilList == [isNil |-> TRUE, items |-> << >>]
Slice(s) == [isNil |-> FALSE, items |-> s]

\* The zero time.Time lies further in the past than any duration of the model.
ZeroTime == 0 - (MaxTime + MaxTime + 2)

\* cache.ttl as the package variable is initialised: 1 * time.Hour, one tick.
DefaultTTL == 1

\* Values CACHE_TTL_MINUTES can hold, in ticks; unset is the empty string.
EnvTTLs == {[set |-> FALSE, ttl |-> 0]} \cup
           {[set |-> TRUE, ttl |-> t] : t \in {0, 2}}

\* The text of the h3 headings a page can hold, word by word.
HeadingTexts == {<<"Saturday", "31", "January">>, <<"Not", "A", "Date">>}

Weekdays == {"Monday", "Tuesday", "Wednesday", "Thursday", "Friday",
             "Saturday", "Sunday"}
LongMonths == {"January", "March", "May", "July", "August", "October",
               "December"}
ShortMonths == {"February", "April", "June", "September", "November"}
DayNumerals == {"1", "01", "7", "07", "28", "31"}

\* Whether parseSkipDate returns a date for the heading: time.Parse with
\* "Monday 2 January 2006" or "Monday 02 January 2006" accepts a weekday
\* name, a day of the month and a month name.
parseSkipDateOk(text) ==
    /\ Len(text) = 3
    /\ text[1] \in Weekdays
    /\ text[2] \in DayNumerals
    /\ text[3] \in LongMonths \cup ShortMonths
    /\ text[2] = "31" => text[3] \in LongMonths

\* The pages the council can serve with status 200: no heading, or one
\* heading followed by a list of two locations.
Pages ==
    {<< >>} \cup
    {<<[heading |-> h, lines |-> <<"s1", "s2">>]>> : h \in HeadingTexts}

\* The list scrapeCouncilWebsite builds from a page: the locations under
\* the headings that parse as dates, appended to the empty, non-nil
\* `filtered`.
RECURSIVE PageLocations(_)
PageLocations(page) ==
    IF page = << >>
        THEN << >>
        ELSE (IF parseSkipDateOk(Head(page).heading)
                 THEN Head(page).lines
                 ELSE << >>) \o PageLocations(Tail(page))

ScrapePage(page) == Slice(PageLocations(page))

\* What a successful scrape can return: `filtered` is never nil.
ScrapeLists == {ScrapePage(page) : page \in Pages}

NoPage == [scraped |-> FALSE, sections |-> << >>]

\* Why scrapeCouncilWebsite fails: http.Get error, status # 200, goquery error.
ScrapeErrors == {"fetch", "status", "parse"}

NoReturn == [list |-> NilList, err |-> "none", src |-> "none"]
NoHist == [first |-> "na", second |-> "na",
           refreshedWhileWaiting |-> FALSE,
           snapData |-> NilList, snapTime |-> ZeroTime, page |-> NoPage]

----------------------------------------------------------------------------
(* getSkipLocations over the package-level cache *)

\* Variant of IsFresh: an empty list counts as no cached data.
IsFreshNonEmpty ==
    cacheData.items # << >> /\ now - cacheTimestamp < cacheTTL

\* Variant of IsFresh: the age is compared with <= instead of <.
IsFreshInclusive == ~cacheData.isNil /\ now - cacheTimestamp <= cacheTTL

\* cache.data != nil && time.Since(cache.timestamp) < cache.ttl
IsFresh == ~cacheData.isNil /\ now - cacheTimestamp < cacheTTL

\* What a check observes, stated without the code's condition.
Seen == IF ~cacheData.isNil /\ now - cacheTimestamp < cacheTTL
        THEN "fresh" ELSE "stale"

\* The HTTP shell takes a request: Handler calls InitCache, then a handler
\* that calls getSkipLocations.
InitCache(p) ==
    /\ pc[p] \in {"idle", "done"}
    /\ cacheTTL' = IF envTTL.set THEN envTTL.ttl ELSE cacheTTL
    /\ pc' = [pc EXCEPT ![p] = "call"]
    /\ ret' = [ret EXCEPT ![p] = NoReturn]
    /\ hist' = [hist EXCEPT ![p] = NoHist]
    /\ locs' = [locs EXCEPT ![p] = NilList]
    /\ UNCHANGED <<now, envTTL, cacheData, cacheTimestamp, readers, writers,
                   lastGood>>
    /\ UNCHANGED <<backendVars, rtVars, scrapeVars,
                   calVars>>

\* Variant of RLock: the read lock is granted while a writer owns the lock.
RLockIgnoresWriter(p) ==
    /\ pc[p] = "call"
    /\ readers' = readers \cup {p}
    /\ pc' = [pc EXCEPT ![p] = "check1"]
    /\ UNCHANGED <<now, envTTL, cacheData, cacheTimestamp, cacheTTL, writers,
                   locs, ret, hist, lastGood>>
    /\ UNCHANGED <<backendVars, rtVars, scrapeVars,
                   calVars>>

\* cache.mu.RLock(): blocks while a writer holds or waits for the lock.
RLock(p) ==
    /\ pc[p] = "call"
    /\ writers = {}
    /\ readers' = readers \cup {p}
    /\ pc' = [pc EXCEPT ![p] = "check1"]
    /\ UNCHANGED <<now, envTTL, cacheData, cacheTimestamp, cacheTTL, writers,
                   locs, ret, hist, lastGood>>
    /\ UNCHANGED <<backendVars, rtVars, scrapeVars,
                   calVars>>

\* Variant of Check1: the first check is skipped, every call goes on to Lock.
Check1AlwaysMiss(p) ==
    /\ pc[p] = "check1"
    /\ readers' = readers \ {p}
    /\ pc' = [pc EXCEPT ![p] = "lock"]
    /\ hist' = [hist EXCEPT ![p].first = Seen]
    /\ UNCHANGED <<now, envTTL, cacheData, cacheTimestamp, cacheTTL, writers,
                   locs, ret, lastGood>>
    /\ UNCHANGED <<backendVars, rtVars, scrapeVars,
                   calVars>>

\* The first check, under the read lock: a hit returns cache.data (the
\* deferred RUnlock runs), a miss releases the read lock.
Check1(p) ==
    /\ pc[p] = "check1"
    /\ readers' = readers \ {p}
    /\ IF IsFresh
       THEN /\ pc' = [pc EXCEPT ![p] = "done"]
            /\ ret' = [ret EXCEPT ![p] = [list |-> cacheData, err |-> "none",
                                          src |-> "cache"]]
       ELSE /\ pc' = [pc EXCEPT ![p] = "lock"]
            /\ ret' = ret
    /\ hist' = [hist EXCEPT ![p].first = Seen]
    /\ UNCHANGED <<now, envTTL, cacheData, cacheTimestamp, cacheTTL, writers,
                   locs, lastGood>>
    /\ UNCHANGED <<backendVars, rtVars, scrapeVars,
                   calVars>>

\* Variant of Lock: no mutual exclusion between writers.
LockNoMutex(p) ==
    /\ pc[p] = "lock"
    /\ writers' = writers \cup {p}
    /\ pc' = [pc EXCEPT ![p] = "lockWait"]
    /\ UNCHANGED <<now, envTTL, cacheData, cacheTimestamp, cacheTTL, readers,
                   locs, ret, hist, lastGood>>
    /\ UNCHANGED <<backendVars, rtVars, scrapeVars,
                   calVars>>

\* cache.mu.Lock(), first half: take the writer mutex, which announces the
\* writer to new readers.
Lock(p) ==
    /\ pc[p] = "lock"
    /\ writers = {}
    /\ writers' = writers \cup {p}
    /\ pc' = [pc EXCEPT ![p] = "lockWait"]
    /\ UNCHANGED <<now, envTTL, cacheData, cacheTimestamp, cacheTTL, readers,
                   locs, ret, hist, lastGood>>
    /\ UNCHANGED <<backendVars, rtVars, scrapeVars,
                   calVars>>

\* cache.mu.Lock(), second half: wait for the active readers to leave.
LockAcquired(p) ==
    /\ pc[p] = "lockWait"
    /\ readers = {}
    /\ pc' = [pc EXCEPT ![p] = "check2"]
    /\ UNCHANGED <<now, envTTL, cacheData, cacheTimestamp, cacheTTL, readers,
                   writers, locs, ret, hist, lastGood>>
    /\ UNCHANGED <<backendVars, rtVars, scrapeVars,
                   calVars>>

\* Variant of Check2: no double-check, whoever gets the lock scrapes.
Check2NoRecheck(p) ==
    /\ pc[p] = "check2"
    /\ pc' = [pc EXCEPT ![p] = "scraping"]
    /\ hist' = [hist EXCEPT ![p].second = Seen,
                            ![p].snapData = cacheData,
                            ![p].snapTime = cacheTimestamp]
    /\ UNCHANGED <<now, envTTL, cacheData, cacheTimestamp, cacheTTL, readers,
                   writers, locs, ret, lastGood>>
    /\ UNCHANGED <<backendVars, rtVars, scrapeVars,
                   calVars>>

\* The double-check under the write lock: a hit returns cache.data (the
\* deferred Unlock runs), a miss calls scrapeCouncilWebsite.
Check2(p) ==
    /\ pc[p] = "check2"
    /\ IF IsFresh
       THEN /\ pc' = [pc EXCEPT ![p] = "done"]
            /\ ret' = [ret EXCEPT ![p] = [list |-> cacheData, err |-> "none",
                                          src |-> "cache"]]
            /\ writers' = writers \ {p}
            /\ hist' = [hist EXCEPT ![p].second = Seen]
       ELSE /\ pc' = [pc EXCEPT ![p] = "scraping"]
            /\ ret' = ret
            /\ writers' = writers
            /\ hist' = [hist EXCEPT ![p].second = Seen,
                                    ![p].snapData = cacheData,
                                    ![p].snapTime = cacheTimestamp]
    /\ UNCHANGED <<now, envTTL, cacheData, cacheTimestamp, cacheTTL, readers,
                   locs, lastGood>>
    /\ UNCHANGED <<backendVars, rtVars, scrapeVars,
                   calVars>>

\* Variant of ScrapeFail: the failure path drops the cached list.
ScrapeFailClearsCache(p) ==
    /\ pc[p] = "scraping"
    /\ ret' = [ret EXCEPT ![p] = [list |-> NilList, err |-> "scraping failed",
                                  src |-> "error"]]
    /\ cacheData' = NilList
    /\ writers' = writers \ {p}
    /\ pc' = [pc EXCEPT ![p] = "done"]
    /\ hist' = [hist EXCEPT ![p].snapData = NilList, ![p].snapTime = ZeroTime]
    /\ UNCHANGED <<now, envTTL, cacheTimestamp, cacheTTL, readers, locs,
                   lastGood>>
    /\ UNCHANGED <<backendVars, rtVars, scrapeVars,
                   calVars>>

\* Variant of ScrapeFail: the error return leaves the lock held.
ScrapeFailKeepsLock(p) ==
    /\ pc[p] = "scraping"
    /\ ret' = [ret EXCEPT ![p] = [list |-> NilList, err |-> "scraping failed",
                                  src |-> "error"]]
    /\ pc' = [pc EXCEPT ![p] = "done"]
    /\ hist' = [hist EXCEPT ![p].snapData = NilList, ![p].snapTime = ZeroTime]
    /\ UNCHANGED <<now, envTTL, cacheData, cacheTimestamp, cacheTTL, readers,
                   writers, locs, lastGood>>
    /\ UNCHANGED <<backendVars, rtVars, scrapeVars,
                   calVars>>

\* scrapeCouncilWebsite returns an error: getSkipLocations returns
\* (nil, "scraping failed: ...") and the deferred Unlock runs.
ScrapeFail(p) ==
    /\ pc[p] = "scraping"
    /\ \E cause \in ScrapeErrors :
          ret' = [ret EXCEPT ![p] = [list |-> NilList,
                                     err |-> "scraping failed",
                                     src |-> "error"]]
    /\ writers' = writers \ {p}
    /\ pc' = [pc EXCEPT ![p] = "done"]
    /\ hist' = [hist EXCEPT ![p].snapData = NilList, ![p].snapTime = ZeroTime]
    /\ UNCHANGED <<now, envTTL, cacheData, cacheTimestamp, cacheTTL, readers,
                   locs, lastGood>>
    /\ UNCHANGED <<backendVars, rtVars, scrapeVars,
                   calVars>>

\* scrapeCouncilWebsite returns a list.
ScrapeOk(p) ==
    /\ pc[p] = "scraping"
    /\ \E page \in Pages :
          /\ locs' = [locs EXCEPT ![p] = ScrapePage(page)]
          /\ hist' = [hist EXCEPT ![p].snapData = NilList,
                                  ![p].snapTime = ZeroTime,
                                  ![p].page = [scraped |-> TRUE,
                                               sections |-> page]]
    /\ pc' = [pc EXCEPT ![p] = "store1"]
    /\ UNCHANGED <<now, envTTL, cacheData, cacheTimestamp, cacheTTL, readers,
                   writers, ret, lastGood>>
    /\ UNCHANGED <<backendVars, rtVars, scrapeVars,
                   calVars>>

\* cache.data = locations
StoreData(p) ==
    /\ pc[p] = "store1"
    /\ cacheData' = locs[p]
    /\ pc' = [pc EXCEPT ![p] = "store2"]
    /\ UNCHANGED <<now, envTTL, cacheTimestamp, cacheTTL, readers, writers,
                   locs, ret, hist, lastGood>>
    /\ UNCHANGED <<backendVars, rtVars, scrapeVars,
                   calVars>>

\* cache.timestamp = time.Now(); return locations, nil; the deferred Unlock.
StoreTimestamp(p) ==
    /\ pc[p] = "store2"
    /\ cacheTimestamp' = now
    /\ lastGood' = <<locs[p], now>>
    /\ ret' = [ret EXCEPT ![p] = [list |-> locs[p], err |-> "none",
                                  src |-> "scrape"]]
    /\ writers' = writers \ {p}
    /\ pc' = [pc EXCEPT ![p] = "done"]
    /\ hist' = [q \in Procs |->
                  IF q # p /\ pc[q] \in {"lock", "lockWait"}
                  THEN [hist[q] EXCEPT !.refreshedWhileWaiting = TRUE]
                  ELSE hist[q]]
    /\ UNCHANGED <<now, envTTL, cacheData, cacheTTL, readers, locs>>
    /\ UNCHANGED <<backendVars, rtVars, scrapeVars,
                   calVars>>

\* Time passes.
Tick ==
    /\ now < MaxTime
    /\ now' = now + 1
    /\ UNCHANGED svcVars
    /\ UNCHANGED <<backendVars, rtVars, scrapeVars,
                   calVars>>

----------------------------------------------------------------------------
(* The Cacher backends: MemoryCache and RedisCache *)

\* Ticks of the backends' clock in one second.
TicksPerSecond == 3

\* The longest TTL a Set is given, and the last instant of the clock, in ticks.
MaxTTL == 5
MaxClock == 5

Keys == {"skips"}

\* The TTLs a Set is given: positive, whole seconds or not.
TTLs == 1 .. MaxTTL

\* The lists a caller can store: nil, empty and non-empty.
CacheLists == {NilList, Slice(<< >>), Slice(<<"s1", "s2">>)}

\* memoryCacheEntry; a key that is not in the map has no entry.
NoEntry == [present |-> FALSE, locations |-> NilList, expiresAt |-> 0]

\* MemoryCache.Get at instant t: (nil, nil) when the key is not in the map or
\* time.Now().After(entry.expiresAt), the stored list otherwise.
MemoryCacheGet(data, key, t) ==
    IF ~data[key].present
    THEN [list |-> NilList, err |-> "none", why |-> "absent"]
    ELSE IF t > data[key].expiresAt
         THEN [list |-> NilList, err |-> "none", why |-> "expired"]
         ELSE [list |-> data[key].locations, err |-> "none", why |-> "hit"]

\* MemoryCache.Set at instant t: the map after c.data[key] = entry.
MemoryCacheSet(data, key, l, ttl, t) ==
    [data EXCEPT ![key] = [present |-> TRUE, locations |-> l,
                           expiresAt |-> t + ttl]]

\* json.Marshal of a []SkipLocation: nil is "null", a slice is an array.
Marshal(l) ==
    IF l.isNil THEN [json |-> "null", elems |-> << >>]
    ELSE [json |-> "array", elems |-> l.items]

\* json.Unmarshal into a nil []SkipLocation: "null" leaves it nil, an array
\* (also the empty one) gives a non-nil slice.
Unmarshal(j) ==
    IF j.json = "null" THEN NilList ELSE Slice(j.elems)

\* A key the remote store does not hold.
NoValue == [present |-> FALSE, value |-> Marshal(NilList), expireAt |-> 0]

\* The remote store's SETEX key seconds value: an expiry that is not
\* positive is refused, otherwise the key lives for `seconds`.
ServerSetex(store, key, seconds, value, t) ==
    IF seconds <= 0
    THEN [status |-> 400, store |-> store]
    ELSE [status |-> 200,
          store |-> [store EXCEPT ![key] =
                        [present |-> TRUE, value |-> value,
                         expireAt |-> t + seconds * TicksPerSecond]]]

\* The remote store's GET key: null for a key it does not hold or whose
\* expiry has passed.
ServerGet(store, key, t) ==
    IF store[key].present /\ ~(t > store[key].expireAt)
    THEN [isNull |-> FALSE, result |-> store[key].value]
    ELSE [isNull |-> TRUE, result |-> Marshal(NilList)]

\* RedisCache.Set at instant t; `up` is whether the HTTP call goes through.
\* ttlSeconds := int(ttl.Seconds()) drops the fraction of a second.
RedisCacheSet(store, key, l, ttl, t, up) ==
    IF ~up
    THEN [err |-> "executing request", store |-> store]
    ELSE LET r == ServerSetex(store, key, ttl \div TicksPerSecond,
                              Marshal(l), t)
         IN  [err |-> IF r.status = 200 THEN "none" ELSE "unexpected status",
              store |-> r.store]

\* RedisCache.Get at instant t; `up` is whether the HTTP call goes through.
RedisCacheGet(store, key, t, up) ==
    IF ~up
    THEN [list |-> NilList, err |-> "executing request"]
    ELSE LET r == ServerGet(store, key, t)
         IN  IF r.isNull
             THEN [list |-> NilList, err |-> "none"]
             ELSE [list |-> Unmarshal(r.result), err |-> "none"]

NoOp == [op |-> "none", key |-> "skips", at |-> 0,
         mem |-> [list |-> NilList, err |-> "none", why |-> "none"],
         redis |-> [list |-> NilList, err |-> "none"]]

\* The same Set is given to both backends at the same instant; the remote
\* store is reachable.
CacheSet ==
    \E key \in Keys, l \in CacheLists, ttl \in TTLs :
        LET r == RedisCacheSet(redisStore, key, l, ttl, now, TRUE)
        IN  /\ memData' = MemoryCacheSet(memData, key, l, ttl, now)
            /\ redisStore' = r.store
            /\ lastOp' = [op |-> "set", key |-> key, at |-> now,
                          mem |-> [list |-> NilList, err |-> "none",
                                   why |-> "set"],
                          redis |-> [list |-> NilList, err |-> r.err]]
            /\ UNCHANGED <<now, svcVars, rtVars, scrapeVars,
                           calVars>>

\* The same Get is given to both backends at the same instant; the remote
\* store is reachable.
CacheGet ==
    \E key \in Keys :
        /\ lastOp' = [op |-> "get", key |-> key, at |-> now,
                      mem |-> MemoryCacheGet(memData, key, now),
                      redis |-> RedisCacheGet(redisStore, key, now, TRUE)]
        /\ UNCHANGED <<now, memData, redisStore, svcVars, rtVars, scrapeVars,
                       calVars>>

\* Time passes for the backends.
CacheTick ==
    /\ now < MaxClock
    /\ now' = now + 1
    /\ UNCHANGED <<svcVars, backendVars, rtVars, scrapeVars,
                   calVars>>

----------------------------------------------------------------------------
(* The read-through service over a Cacher (LocationService.getLocations),  *)
(* with RedisCache as the backend                                          *)

\* The key the list is cached under and the configured TTL (one second).
RtKey == "skips"
RtTTL == TicksPerSecond

NoRtHist == [get1 |-> "na", get2 |-> "na", scrape |-> "none", set |-> "na",
             list |-> NilList]

\* How the service reads a Cacher.Get result: an error, a miss (nil list)
\* or a hit.
Outcome(r) ==
    IF r.err # "none" THEN "error"
    ELSE IF r.list.isNil THEN "miss" ELSE "hit"

\* Step 1: Cache.get(key); a hit returns at once, a miss or an error goes on
\* to the exclusive section.
RtGet1(p) ==
    /\ rtPc[p] \in {"idle", "done"}
    /\ \E up \in BOOLEAN :
          LET r == RedisCacheGet(redisStore, RtKey, now, up)
          IN  /\ rtHist' = [rtHist EXCEPT ![p] =
                               [NoRtHist EXCEPT !.get1 = Outcome(r)]]
              /\ IF Outcome(r) = "hit"
                 THEN /\ rtPc' = [rtPc EXCEPT ![p] = "done"]
                      /\ rtRet' = [rtRet EXCEPT ![p] =
                                      [list |-> r.list, err |-> "none",
                                       src |-> "cache"]]
                 ELSE /\ rtPc' = [rtPc EXCEPT ![p] = "enter"]
                      /\ rtRet' = [rtRet EXCEPT ![p] = NoReturn]
    /\ UNCHANGED <<now, svcVars, backendVars, rtMutex, scrapeVars,
                   calVars>>

\* Step 2, first half: acquire the exclusive section.
RtEnter(p) ==
    /\ rtPc[p] = "enter"
    /\ rtMutex = {}
    /\ rtMutex' = {p}
    /\ rtPc' = [rtPc EXCEPT ![p] = "recheck"]
    /\ UNCHANGED <<now, svcVars, backendVars, rtRet, rtHist, scrapeVars,
                   calVars>>

\* Step 2, second half: re-check Cache.get(key); a hit returns it, a miss or
\* an error calls Scraper.fetch().
RtGet2(p) ==
    /\ rtPc[p] = "recheck"
    /\ \E up \in BOOLEAN :
          LET r == RedisCacheGet(redisStore, RtKey, now, up)
          IN  /\ rtHist' = [rtHist EXCEPT ![p].get2 = Outcome(r)]
              /\ IF Outcome(r) = "hit"
                 THEN /\ rtPc' = [rtPc EXCEPT ![p] = "done"]
                      /\ rtRet' = [rtRet EXCEPT ![p] =
                                      [list |-> r.list, err |-> "none",
                                       src |-> "cache"]]
                      /\ rtMutex' = rtMutex \ {p}
                 ELSE /\ rtPc' = [rtPc EXCEPT ![p] = "fetch"]
                      /\ rtRet' = rtRet
                      /\ rtMutex' = rtMutex
    /\ UNCHANGED <<now, svcVars, backendVars, scrapeVars,
                   calVars>>

\* Step 4: Scraper.fetch() fails; a ScrapeError goes to the caller.
RtFetchFail(p) ==
    /\ rtPc[p] = "fetch"
    /\ rtHist' = [rtHist EXCEPT ![p].scrape = "failed"]
    /\ rtRet' = [rtRet EXCEPT ![p] = [list |-> NilList,
                                      err |-> "scraping failed",
                                      src |-> "error"]]
    /\ rtMutex' = rtMutex \ {p}
    /\ rtPc' = [rtPc EXCEPT ![p] = "done"]
    /\ UNCHANGED <<now, svcVars, backendVars, scrapeVars,
                   calVars>>

\* Step 3, first half: Scraper.fetch() succeeds.
RtFetchOk(p) ==
    /\ rtPc[p] = "fetch"
    /\ \E l \in ScrapeLists :
          rtHist' = [rtHist EXCEPT ![p].scrape = "ok", ![p].list = l]
    /\ rtPc' = [rtPc EXCEPT ![p] = "set"]
    /\ UNCHANGED <<now, svcVars, backendVars, rtRet, rtMutex, scrapeVars,
                   calVars>>

\* A second passes for the read-through service.
RtTick ==
    /\ now < MaxClock
    /\ now' = now + TicksPerSecond
    /\ UNCHANGED <<svcVars, backendVars, rtVars, scrapeVars,
                   calVars>>

\* Variant of RtSet: a failed cache write fails the request.
RtSetPropagates(p) ==
    /\ rtPc[p] = "set"
    /\ \E up \in BOOLEAN :
          LET r == RedisCacheSet(redisStore, RtKey, rtHist[p].list, RtTTL,
                                 now, up)
          IN  /\ redisStore' = r.store
              /\ rtHist' = [rtHist EXCEPT ![p].set =
                               IF r.err = "none" THEN "ok" ELSE "error"]
              /\ rtRet' = [rtRet EXCEPT ![p] =
                              IF r.err = "none"
                              THEN [list |-> rtHist[p].list, err |-> "none",
                                    src |-> "scrape"]
                              ELSE [list |-> NilList, err |-> r.err,
                                    src |-> "error"]]
    /\ rtMutex' = rtMutex \ {p}
    /\ rtPc' = [rtPc EXCEPT ![p] = "done"]
    /\ UNCHANGED <<now, svcVars, memData, lastOp, scrapeVars,
                   calVars>>

\* Step 3, second half: Cache.set(key, list, ttl), best effort: a failure is
\* logged; the fresh list is returned either way.
RtSet(p) ==
    /\ rtPc[p] = "set"
    /\ \E up \in BOOLEAN :
          LET r == RedisCacheSet(redisStore, RtKey, rtHist[p].list, RtTTL,
                                 now, up)
          IN  /\ redisStore' = r.store
              /\ rtHist' = [rtHist EXCEPT ![p].set =
                               IF r.err = "none" THEN "ok" ELSE "error"]
    /\ rtRet' = [rtRet EXCEPT ![p] = [list |-> rtHist[p].list, err |-> "none",
                                      src |-> "scrape"]]
    /\ rtMutex' = rtMutex \ {p}
    /\ rtPc' = [rtPc EXCEPT ![p] = "done"]
    /\ UNCHANGED <<now, svcVars, memData, lastOp, scrapeVars,
                   calVars>>

----------------------------------------------------------------------------
(* scrapeCouncilWebsite: the filter to upcoming dates.  In this part the   *)
(* clock counts hours on the UTC time line.                                *)

\* 24*time.Hour, in hours.
HoursPerDay == 24

\* The last day a heading can name, and the longest parsed list.
MaxDay == 2
MaxParsed == 2

Days == 0 .. MaxDay

\* Europe/London is UTC (GMT) or UTC+1 (BST).
Zones == {0, 1}

\* parseSkipDate gives midnight UTC of the day the heading names.
DateOf(day) == day * HoursPerDay

\* The lists parseLocations can add up to, in page order; the address stands
\* for the text of the line.
ParsedLists ==
    UNION {{[i \in 1 .. n |-> [address |-> i, date |-> DateOf(f[i]),
                               latitude |-> 0, longitude |-> 0]] :
               f \in [1 .. n -> Days]} : n \in 0 .. MaxParsed}

\* time.Time.Truncate(d): rounds down to a multiple of d on the absolute
\* (UTC) time line, whatever the time's location.
Truncate(t, d) == t - (t % d)

\* loc.Date.After(now) || loc.Date.Equal(now.Truncate(24*time.Hour))
KeepUpcoming(l, t) == l.date > t \/ l.date = Truncate(t, HoursPerDay)

\* The loop that builds `filtered`.
FilterUpcoming(ls, t) == SelectSeq(ls, LAMBDA l : KeepUpcoming(l, t))

\* scrapeCouncilWebsite from the parsed list to `filtered`.
ScrapeFilter ==
    /\ scrapePc = "parsed"
    /\ filtered' = FilterUpcoming(parsed, now)
    /\ scrapePc' = "filtered"
    /\ UNCHANGED <<now, parsed, zone, geoVars, pageVars, calVars, svcVars,
                   backendVars, rtVars>>

----------------------------------------------------------------------------
(* scrapeCouncilWebsite: the geocoding loop.  In this part the clock       *)
(* counts tenths of a second.                                              *)

\* 200 * time.Millisecond, in tenths of a second.
SleepTicks == 2

\* The longest filtered list, and the last instant of the clock.
MaxFiltered == 3
MaxGeoClock == 6

\* The coordinates a successful geocodePostcode call can return.
GeoCoords == {<<51, 1>>, <<52, 2>>}

\* The lists the filter can leave: no location has coordinates yet.
FilteredLists ==
    {[i \in 1 .. n |-> [address |-> i, date |-> DateOf(0),
                        latitude |-> 0, longitude |-> 0]] :
        n \in 0 .. MaxFiltered}

NoScrapeReturn == [list |-> << >>, err |-> "pending"]

\* for i := range filtered { lat, lng, err := geocodePostcode(...): the call
\* is sent.
GeocodeCall ==
    /\ scrapePc = "geocoding"
    /\ geoIdx <= Len(filtered)
    /\ geoCalls' = Append(geoCalls, [idx |-> geoIdx, start |-> now,
                                     end |-> 0 - 1, ok |-> FALSE])
    /\ scrapePc' = "calling"
    /\ UNCHANGED <<now, parsed, zone, filtered, geoIdx, geoWake, survivors,
                   scrapeRet, svcVars, backendVars, rtVars, pageVars,
                   calVars>>

\* Variant of GeocodeFail in which the error ends the scrape.
GeocodeFailAborts ==
    /\ scrapePc = "calling"
    /\ geoCalls' = [geoCalls EXCEPT ![Len(geoCalls)].end = now]
    /\ scrapeRet' = [list |-> << >>, err |-> "geocode"]
    /\ scrapePc' = "returned"
    /\ UNCHANGED <<now, parsed, zone, filtered, geoIdx, geoWake, survivors,
                   svcVars, backendVars, rtVars, pageVars,
                   calVars>>

\* geocodePostcode returned an error: log and continue.
GeocodeFail ==
    /\ scrapePc = "calling"
    /\ geoCalls' = [geoCalls EXCEPT ![Len(geoCalls)].end = now]
    /\ geoIdx' = geoIdx + 1
    /\ scrapePc' = "geocoding"
    /\ UNCHANGED <<now, parsed, zone, filtered, geoWake, survivors,
                   scrapeRet, svcVars, backendVars, rtVars, pageVars,
                   calVars>>

\* geocodePostcode returned coordinates: they are stored, and the loop
\* sleeps unless this was the last location.
GeocodeOk ==
    /\ scrapePc = "calling"
    /\ \E c \in GeoCoords :
           filtered' = [filtered EXCEPT ![geoIdx].latitude = c[1],
                                        ![geoIdx].longitude = c[2]]
    /\ geoCalls' = [geoCalls EXCEPT ![Len(geoCalls)].end = now,
                                    ![Len(geoCalls)].ok = TRUE]
    /\ IF geoIdx < Len(filtered)
          THEN /\ scrapePc' = "sleeping"
               /\ geoWake' = now + SleepTicks
               /\ UNCHANGED geoIdx
          ELSE /\ scrapePc' = "geocoding"
               /\ geoIdx' = geoIdx + 1
               /\ UNCHANGED geoWake
    /\ UNCHANGED <<now, parsed, zone, survivors, scrapeRet, svcVars,
                   backendVars, rtVars, pageVars,
                   calVars>>

\* time.Sleep returns once the duration has passed.
GeocodeSleepDone ==
    /\ scrapePc = "sleeping"
    /\ now >= geoWake
    /\ geoIdx' = geoIdx + 1
    /\ scrapePc' = "geocoding"
    /\ UNCHANGED <<now, parsed, zone, filtered, geoWake, geoCalls, survivors,
                   scrapeRet, svcVars, backendVars, rtVars, pageVars,
                   calVars>>

\* The loop is over: return filtered, nil.
GeocodeReturn ==
    /\ scrapePc = "geocoding"
    /\ geoIdx > Len(filtered)
    /\ scrapeRet' = [list |-> filtered, err |-> "none"]
    /\ scrapePc' = "returned"
    /\ UNCHANGED <<now, parsed, zone, filtered, geoIdx, geoWake, geoCalls,
                   survivors, svcVars, backendVars, rtVars, pageVars,
                   calVars>>

\* A tenth of a second passes.
GeoTick ==
    /\ scrapePc \in {"geocoding", "calling", "sleeping"}
    /\ now < MaxGeoClock
    /\ now' = now + 1
    /\ UNCHANGED <<svcVars, backendVars, rtVars, scrapeVars,
                   calVars>>

----------------------------------------------------------------------------
(* parseLocations and parseLocationLine.  A string is a sequence of its   *)
(* characters.                                                             *)

\* The most pieces of text an element is made of.
MaxChunks == 3

\* unicode.IsSpace, on the characters used here.
WhiteSpace == {" ", "\n", "\t"}

LowerLetters == <<"a", "b", "c", "d", "e", "f", "g", "h", "i", "j", "k", "l",
                  "m", "n", "o", "p", "q", "r", "s", "t", "u", "v", "w", "x",
                  "y", "z">>
UpperLetters == <<"A", "B", "C", "D", "E", "F", "G", "H", "I", "J", "K", "L",
                  "M", "N", "O", "P", "Q", "R", "S", "T", "U", "V", "W", "X",
                  "Y", "Z">>

\* The regular expression classes [A-Z] and \d.
AZ == {UpperLetters[i] : i \in DOMAIN UpperLetters}
Digits == {"0", "1", "2", "3", "4", "5", "6", "7", "8", "9"}

\* The bullet literal of the first TrimPrefix, taken as one character.
Bullet == <<"bullet">>

RECURSIVE TrimLeft(_)
TrimLeft(s) ==
    IF s # << >> /\ Head(s) \in WhiteSpace THEN TrimLeft(Tail(s)) ELSE s

RECURSIVE TrimRight(_)
TrimRight(s) ==
    IF s # << >> /\ s[Len(s)] \in WhiteSpace
        THEN TrimRight(SubSeq(s, 1, Len(s) - 1))
        ELSE s

\* strings.TrimSpace
TrimSpace(s) == TrimRight(TrimLeft(s))

\* strings.TrimPrefix
TrimPrefix(s, prefix) ==
    IF Len(s) >= Len(prefix) /\ SubSeq(s, 1, Len(prefix)) = prefix
        THEN SubSeq(s, Len(prefix) + 1, Len(s))
        ELSE s

\* strings.ToUpper
ToUpper(s) ==
    [i \in 1 .. Len(s) |->
        IF \E k \in DOMAIN LowerLetters : LowerLetters[k] = s[i]
            THEN UpperLetters[CHOOSE k \in DOMAIN LowerLetters :
                                 LowerLetters[k] = s[i]]
            ELSE s[i]]

\* The index of the first character of s that is in set, or Len(s) + 1.
IndexIn(s, set) ==
    IF \E i \in 1 .. Len(s) : s[i] \in set
        THEN CHOOSE i \in 1 .. Len(s) :
                 s[i] \in set /\ \A j \in 1 .. i - 1 : s[j] \notin set
        ELSE Len(s) + 1

\* strings.Fields
RECURSIVE Fields(_)
Fields(s) ==
    LET t == TrimLeft(s)
        n == IndexIn(t, WhiteSpace)
    IN  IF t = << >>
            THEN << >>
            ELSE <<SubSeq(t, 1, n - 1)>> \o Fields(SubSeq(t, n, Len(t)))

\* postcodePattern.MatchString:  ^[A-Z]{1,2}\d{1,2}[A-Z]?\s?\d[A-Z]{2}$
PostcodePatternMatch(s) ==
    \E a \in 1 .. 2, b \in 1 .. 2, c \in 0 .. 1, d \in 0 .. 1 :
        /\ Len(s) = a + b + c + d + 3
        /\ \A i \in 1 .. a : s[i] \in AZ
        /\ \A i \in a + 1 .. a + b : s[i] \in Digits
        /\ c = 1 => s[a + b + 1] \in AZ
        /\ d = 1 => s[a + b + c + 1] \in WhiteSpace
        /\ s[a + b + c + d + 1] \in Digits
        /\ s[a + b + c + d + 2] \in AZ
        /\ s[a + b + c + d + 3] \in AZ

\* SkipLocation{}
ZeroLocation ==
    [address |-> << >>, postcode |-> << >>, date |-> ZeroTime,
     latitude |-> 0, longitude |-> 0]

\* The postcode parseLocationLine settles on for the text after the first
\* comma, before it is upper-cased.
PostcodeOf(rest) ==
    LET words == Fields(rest)
        potentialPostcode ==
            words[Len(words) - 1] \o <<" ">> \o words[Len(words)]
    IN  IF ~PostcodePatternMatch(ToUpper(rest))
           /\ Len(words) >= 2
           /\ PostcodePatternMatch(ToUpper(potentialPostcode))
            THEN potentialPostcode
            ELSE rest

parseLocationLine(text, date) ==
    LET line == TrimSpace(TrimPrefix(TrimPrefix(TrimPrefix(
                    TrimSpace(text), Bullet), <<"-">>), <<"*">>))
        comma == IndexIn(line, {","})
        address == TrimSpace(SubSeq(line, 1, comma - 1))
        postcode == TrimSpace(SubSeq(line, comma + 1, Len(line)))
    IN  IF line = << >> \/ comma > Len(line)
            THEN ZeroLocation
            ELSE [address |-> address,
                  postcode |-> ToUpper(PostcodeOf(postcode)),
                  date |-> date, latitude |-> 0, longitude |-> 0]

\* parseLocations: el.Find("li") gives el.items, el.Text() gives el.text.
parseLocations(el, date) ==
    LET perItem == [i \in 1 .. Len(el.items) |->
                       parseLocationLine(el.items[i], date)]
        locations == SelectSeq(perItem, LAMBDA l : l.address # << >>)
        whole == parseLocationLine(el.text, date)
    IN  IF Len(locations) = 0
            THEN IF whole.address # << >> THEN <<whole>> ELSE << >>
            ELSE locations

\* The pieces of text the elements are made of.
Chunks ==
    {<<"R", "d", ",">>, <<",">>, <<" ">>, <<"S", "W", "1", " ", "5", "T", "U">>,
     <<"s", "w", "1", "5", "t", "u">>, <<"b", "y", " ">>, <<"-", " ">>}

RECURSIVE Concat(_)
Concat(ss) == IF ss = << >> THEN << >> ELSE Head(ss) \o Concat(Tail(ss))

\* The text of a list whose items hold the given texts: the items' text in
\* order, a line apart.
ListText(items) ==
    Concat([i \in 1 .. Len(items) |->
               IF i = 1 THEN items[i] ELSE <<"\n">> \o items[i]])

\* The elements that can follow a heading: a paragraph of up to n pieces of
\* text, or a list of one or two items of that much text in all.
Elements(n) ==
    LET ChunkSeqs == UNION {[1 .. m -> Chunks] : m \in 0 .. n}
        Paragraph(cs) == [items |-> << >>, text |-> Concat(cs)]
        OneItem(cs) == [items |-> <<Concat(cs)>>, text |-> Concat(cs)]
        TwoItems(cs, k) ==
            LET its == <<Concat(SubSeq(cs, 1, k)),
                         Concat(SubSeq(cs, k + 1, Len(cs)))>>
            IN  [items |-> its, text |-> ListText(its)]
    IN  {Paragraph(cs) : cs \in ChunkSeqs}
           \cup {OneItem(cs) : cs \in ChunkSeqs}
           \cup UNION {{TwoItems(cs, k) : k \in 1 .. Len(cs) - 1} :
                          cs \in ChunkSeqs}

NoElement == [items |-> << >>, text |-> << >>]

\* scrapeCouncilWebsite: locs := parseLocations(nextEl, date, dateText);
\* locations = append(locations, locs...)
ParseElement ==
    /\ scrapePc = "element"
    /\ parsed' = parsed \o parseLocations(element, DateOf(0))
    /\ scrapePc' = "parsed"
    /\ UNCHANGED <<now, zone, filtered, geoVars, pageVars, calVars, svcVars,
                   backendVars, rtVars>>

----------------------------------------------------------------------------
(* The calendar feed: HandleCalendarDefault and HandleCalendarPostcode.    *)
(* Dates count hours on the UTC time line; every coordinate lies on the    *)
(* Greenwich meridian, where the haversine distance is proportional to the *)
(* difference of the latitudes.                                            *)

\* The longest list getSkipLocations hands the handler, and the last day a
\* location is dated.
MaxSkips == 3
MaxCalDay == 1

\* The last instant a feed is generated at.
MaxStamp == 1

\* math.MaxFloat64: larger than every distance.
MaxFloat64 == 1000

\* The latitudes a location can have (0 when it was not geocoded) and the
\* latitudes geocodePostcode can give for the user's postcode.
SkipLatitudes == {0, 51, 53}
UserLatitudes == {51, 52}

AddressOf == <<<<"A">>, <<"B", ";">>, <<"C", "\\">>, <<"D">>>>

\* The lists getSkipLocations can return: the i-th location has the i-th
\* address, a date at midnight UTC and a latitude.
CalLists ==
    UNION {{[i \in 1 .. n |->
                [address |-> AddressOf[i], postcode |-> <<"S", "W", "1">>,
                 date |-> DateOf(d[i]), latitude |-> l[i], longitude |-> 0]] :
               d \in [1 .. n -> 0 .. MaxCalDay],
               l \in [1 .. n -> SkipLatitudes]} : n \in 0 .. MaxSkips}

\* /calendar.ics, or /calendar/{postcode}.ics with the postcode geocoded.
CalRequests ==
    {[personal |-> FALSE, lat |-> 0, lng |-> 0]} \cup
    {[personal |-> TRUE, lat |-> u, lng |-> 0] : u \in UserLatitudes}

\* haversineDistance between two points of one meridian, in units of
\* R * pi / 180 km.
haversineDistance(lat1, lon1, lat2, lon2) ==
    IF lat2 >= lat1 THEN lat2 - lat1 ELSE lat1 - lat2

\* time.Date(t.Year(), t.Month(), t.Day(), 0, 0, 0, 0, time.UTC) of a UTC
\* time.
StartOfDay(t) == Truncate(t, HoursPerDay)

\* groupSkipsByDate: the map after the first n locations.
RECURSIVE GroupLoop(_, _)
GroupLoop(skips, n) ==
    IF n = 0
        THEN << >>
        ELSE LET groups == GroupLoop(skips, n - 1)
                 date == StartOfDay(skips[n].date)
             IN  IF date \in DOMAIN groups
                     THEN [groups EXCEPT ![date] = Append(@, skips[n])]
                     ELSE [d \in DOMAIN groups \cup {date} |->
                              IF d = date THEN <<skips[n]>> ELSE groups[d]]

\* Variant of groupSkipsByDate: a date's entry is overwritten, not appended
\* to.
groupKeepsLast(skips) ==
    [d \in {StartOfDay(skips[i].date) : i \in 1 .. Len(skips)} |->
        LET last == CHOOSE i \in 1 .. Len(skips) :
                        /\ StartOfDay(skips[i].date) = d
                        /\ \A j \in i + 1 .. Len(skips) :
                              StartOfDay(skips[j].date) # d
        IN  <<skips[last]>>]

groupSkipsByDate(skips) == GroupLoop(skips, Len(skips))

\* Variant of NearestLoop: a location at the same distance replaces the one
\* found so far.
RECURSIVE NearestLoopLastWins(_, _, _, _, _, _)
NearestLoopLastWins(skips, date, userLat, userLng, i, best) ==
    IF i > Len(skips)
        THEN best.nearest
        ELSE LET dist == haversineDistance(userLat, userLng,
                                           skips[i].latitude,
                                           skips[i].longitude)
             IN  IF StartOfDay(skips[i].date) = StartOfDay(date)
                    /\ dist <= best.minDist
                     THEN NearestLoopLastWins(skips, date, userLat, userLng,
                              i + 1, [nearest |-> i, minDist |-> dist])
                     ELSE NearestLoopLastWins(skips, date, userLat, userLng,
                              i + 1, best)

\* findNearestSkipForDate: the loop from index i on; best.nearest is the
\* index the pointer refers to, 0 for nil.
RECURSIVE NearestLoop(_, _, _, _, _, _)
NearestLoop(skips, date, userLat, userLng, i, best) ==
    IF i > Len(skips)
        THEN best.nearest
        ELSE LET dist == haversineDistance(userLat, userLng,
                                           skips[i].latitude,
                                           skips[i].longitude)
             IN  IF StartOfDay(skips[i].date) # StartOfDay(date)
                     THEN NearestLoop(skips, date, userLat, userLng, i + 1,
                                      best)
                     ELSE IF dist < best.minDist
                         THEN NearestLoop(skips, date, userLat, userLng,
                                          i + 1,
                                          [nearest |-> i, minDist |-> dist])
                         ELSE NearestLoop(skips, date, userLat, userLng,
                                          i + 1, best)

findNearestSkipForDate(skips, date, userLat, userLng) ==
    NearestLoop(skips, date, userLat, userLng, 1,
                [nearest |-> 0, minDist |-> MaxFloat64])

\* strings.ReplaceAll of one character by a text.
ReplaceAll(text, old, new) ==
    Concat([i \in 1 .. Len(text) |->
               IF text[i] = old THEN new ELSE <<text[i]>>])

\* Variant of escapeICalText: the backslash is replaced last.
escapeBackslashLast(text) ==
    ReplaceAll(ReplaceAll(ReplaceAll(ReplaceAll(text,
        ";", <<"\\", ";">>), ",", <<"\\", ",">>), "\n", <<"\\", "n">>),
        "\\", <<"\\", "\\">>)

escapeICalText(text) ==
    ReplaceAll(ReplaceAll(ReplaceAll(ReplaceAll(text,
        "\\", <<"\\", "\\">>), ";", <<"\\", ";">>), ",", <<"\\", ",">>),
        "\n", <<"\\", "n">>)

\* "Wandsworth Megaskip" and the description, in short.
EventTitle == <<"W", "M">>
EventDescription == <<"9", "\\", "n", "h">>

\* fmt.Sprintf("%s, %s, London, UK", nearest.Address, nearest.Postcode)
LocationText(skip) ==
    skip.address \o <<",", " ">> \o skip.postcode
       \o <<",", " ", "L", ",", " ", "U", "K">>

\* The orders in which `range groups` can yield the keys of the map.
RangeOrders(groups) ==
    {o \in [1 .. Cardinality(DOMAIN groups) -> DOMAIN groups] :
        \A i, j \in DOMAIN o : i # j => o[i] # o[j]}

\* sort.Slice(events, less by Date.Before), as an insertion sort.
RECURSIVE InsertEvent(_, _)
InsertEvent(event, sorted) ==
    IF sorted = << >>
        THEN <<event>>
        ELSE IF event.date < Head(sorted).date
            THEN <<event>> \o sorted
            ELSE <<Head(sorted)>> \o InsertEvent(event, Tail(sorted))

RECURSIVE SortEvents(_)
SortEvents(events) ==
    IF events = << >>
        THEN << >>
        ELSE InsertEvent(events[Len(events)],
                         SortEvents(SubSeq(events, 1, Len(events) - 1)))

FeedLine(name, date, text) == [name |-> name, date |-> date, text |-> text]

\* date.Format("2006-01-02") of a UTC time; hour 0 of the model is midnight
\* of 1 January 1970.
IsoDates == <<"1970-01-01", "1970-01-02", "1970-01-03", "1970-01-04",
              "1970-01-05", "1970-01-06">>
Format(date) == IsoDates[(date \div HoursPerDay) + 1]

\* fmt.Sprintf("%x", hash[:8]) for hash := sha256.Sum256([]byte(text)).
Sha256Prefix(text) ==
    CASE text = "1970-01-01" -> "85c14296d9598554"
      [] text = "1970-01-02" -> "eeb1b3db0ca0613e"
      [] text = "1970-01-03" -> "2063a79117bae353"
      [] text = "1970-01-04" -> "98fe137db91af484"
      [] text = "1970-01-05" -> "cc3ade1b392e26d3"
      [] text = "1970-01-06" -> "c96ed1bdaf05466c"

\* generateUID: the hash in hex, then the suffix.
generateUID(date) == <<Sha256Prefix(Format(date)), "@wheremegaskip.com">>

\* Variant of EventLines: the UID is made from the time of generation.
EventLinesUidFromStamp(event, stamp) ==
    <<FeedLine("BEGIN:VEVENT", 0 - 1, << >>),
      FeedLine("UID", 0 - 1, generateUID(DateOf(stamp))),
      FeedLine("DTSTAMP", stamp, << >>),
      FeedLine("DTSTART;TZID=Europe/London", event.date + 9, << >>),
      FeedLine("DTEND;TZID=Europe/London", event.date + 12, << >>),
      FeedLine("SUMMARY", 0 - 1, escapeICalText(event.title)),
      FeedLine("DESCRIPTION", 0 - 1, escapeICalText(event.description))>>
    \o (IF event.location # << >>
           THEN <<FeedLine("LOCATION", 0 - 1,
                           escapeICalText(event.location))>>
           ELSE << >>)
    \o <<FeedLine("END:VEVENT", 0 - 1, << >>)>>

\* Variant of EventLines: the LOCATION line is written for every event.
EventLinesAlwaysLocation(event, stamp) ==
    <<FeedLine("BEGIN:VEVENT", 0 - 1, << >>),
      FeedLine("UID", 0 - 1, generateUID(event.date)),
      FeedLine("DTSTAMP", stamp, << >>),
      FeedLine("DTSTART;TZID=Europe/London", event.date + 9, << >>),
      FeedLine("DTEND;TZID=Europe/London", event.date + 12, << >>),
      FeedLine("SUMMARY", 0 - 1, escapeICalText(event.title)),
      FeedLine("DESCRIPTION", 0 - 1, escapeICalText(event.description)),
      FeedLine("LOCATION", 0 - 1, escapeICalText(event.location)),
      FeedLine("END:VEVENT", 0 - 1, << >>)>>

\* generateICalFeed: the lines of one VEVENT.
EventLines(event, stamp) ==
    <<FeedLine("BEGIN:VEVENT", 0 - 1, << >>),
      FeedLine("UID", 0 - 1, generateUID(event.date)),
      FeedLine("DTSTAMP", stamp, << >>),
      FeedLine("DTSTART;TZID=Europe/London", event.date + 9, << >>),
      FeedLine("DTEND;TZID=Europe/London", event.date + 12, << >>),
      FeedLine("SUMMARY", 0 - 1, escapeICalText(event.title)),
      FeedLine("DESCRIPTION", 0 - 1, escapeICalText(event.description))>>
    \o (IF event.location # << >>
           THEN <<FeedLine("LOCATION", 0 - 1,
                           escapeICalText(event.location))>>
           ELSE << >>)
    \o <<FeedLine("END:VEVENT", 0 - 1, << >>)>>

generateICalFeed(events, stamp) ==
    <<FeedLine("BEGIN:VCALENDAR", 0 - 1, << >>),
      FeedLine("BEGIN:VTIMEZONE", 0 - 1, << >>),
      FeedLine("END:VTIMEZONE", 0 - 1, << >>)>>
    \o Concat([i \in 1 .. Len(events) |-> EventLines(events[i], stamp)])
    \o <<FeedLine("END:VCALENDAR", 0 - 1, << >>)>>

\* groups := groupSkipsByDate(locations)
CalGroup ==
    /\ calPc = "located"
    /\ calGroups' = groupSkipsByDate(calLocations)
    /\ calPc' = "grouped"
    /\ UNCHANGED <<now, calReq, calLocations, calEvents, calFeed, calOrder,
                   calNearest, svcVars, backendVars, rtVars, scrapeVars,
                   escVars, hVars>>

\* The event the handler appends for one key of the map.
EventFor(date) ==
    LET skips == calGroups[date]
        nearest == findNearestSkipForDate(skips, date, calReq.lat,
                                          calReq.lng)
    IN  [date |-> date, title |-> EventTitle,
         description |-> EventDescription,
         location |-> IF calReq.personal /\ nearest # 0
                         THEN LocationText(skips[nearest])
                         ELSE << >>]

\* for date, skips := range groups { events = append(events, ...) }
CalBuildEvents ==
    /\ calPc = "grouped"
    /\ \E order \in RangeOrders(calGroups) :
          /\ calEvents' = [i \in 1 .. Len(order) |-> EventFor(order[i])]
          /\ calOrder' = order
    /\ calPc' = "built"
    /\ UNCHANGED <<now, calReq, calLocations, calGroups, calFeed, calNearest,
                   svcVars, backendVars, rtVars, scrapeVars,
                   escVars, hVars>>

\* Variant of CalSort: the events are left in the order the map yielded.
CalSortSkipped ==
    /\ calPc = "built"
    /\ calPc' = "sorted"
    /\ UNCHANGED <<now, calReq, calLocations, calGroups, calEvents, calFeed,
                   calOrder, calNearest, svcVars, backendVars, rtVars,
                   scrapeVars,
                   escVars, hVars>>

\* sort.Slice(events, ...)
CalSort ==
    /\ calPc = "built"
    /\ calEvents' = SortEvents(calEvents)
    /\ calPc' = "sorted"
    /\ UNCHANGED <<now, calReq, calLocations, calGroups, calFeed, calOrder,
                   calNearest, svcVars, backendVars, rtVars, scrapeVars,
                   escVars, hVars>>

\* ical := generateICalFeed(events); w.Write([]byte(ical)).  The feed is
\* stamped with time.Now() of the moment it is generated.
CalWrite ==
    /\ calPc = "sorted"
    /\ \E stamp \in now .. MaxStamp :
          /\ now' = stamp
          /\ calFeed' = generateICalFeed(calEvents, stamp)
    /\ calPc' = "served"
    /\ UNCHANGED <<calReq, calLocations, calGroups, calEvents, calOrder,
                   calNearest, svcVars, backendVars, rtVars, scrapeVars,
                   escVars, hVars>>

NoNearest == [called |-> FALSE, date |-> 0, index |-> 0]

\* A call of findNearestSkipForDate on the whole list, for any date.
CallFindNearest ==
    /\ calPc = "nearest"
    /\ \E day \in 0 .. MaxCalDay :
          calNearest' =
              [called |-> TRUE, date |-> DateOf(day),
               index |-> findNearestSkipForDate(calLocations, DateOf(day),
                                                calReq.lat, calReq.lng)]
    /\ calPc' = "nearestDone"
    /\ UNCHANGED <<now, calReq, calLocations, calGroups, calEvents, calFeed,
                   calOrder, svcVars, backendVars, rtVars, scrapeVars,
                   escVars, hVars>>

\* The longest text escaped, and the characters it is made of.
MaxText == 4
TextChars == {",", ";", "\\", "\n", "n", "a"}

\* A call of escapeICalText.
CallEscape ==
    /\ calPc = "escape"
    /\ escOut' = escapeICalText(escIn)
    /\ calPc' = "escaped"
    /\ UNCHANGED <<now, calReq, calLocations, calGroups, calEvents, calFeed,
                   calOrder, calNearest, escIn, svcVars, backendVars, rtVars,
                   scrapeVars, hVars>>

----------------------------------------------------------------------------
(* The HTTP shell: Handler, HandleIndex, HandleCalendarDefault and         *)
(* HandleCalendarPostcode, one goroutine per request.                      *)

\* strings.HasPrefix, strings.HasSuffix, strings.TrimSuffix
HasPrefix(s, prefix) ==
    Len(s) >= Len(prefix) /\ SubSeq(s, 1, Len(prefix)) = prefix

HasSuffix(s, suffix) ==
    /\ Len(s) >= Len(suffix)
    /\ SubSeq(s, Len(s) - Len(suffix) + 1, Len(s)) = suffix

TrimSuffix(s, suffix) ==
    IF HasSuffix(s, suffix) THEN SubSeq(s, 1, Len(s) - Len(suffix)) ELSE s

\* ishex
HexDigits == Digits \cup {"a", "b", "c", "d", "e", "f",
                          "A", "B", "C", "D", "E", "F"}

\* The byte two hex digits stand for; the paths of the model escape the
\* space, the plus sign and the comma.
UnhexByte(h1, h2) ==
    IF <<h1, h2>> = <<"2", "0">> THEN " "
    ELSE IF ToUpper(<<h1, h2>>) = <<"2", "B">> THEN "+"
    ELSE IF ToUpper(<<h1, h2>>) = <<"2", "C">> THEN ","
    ELSE "byte"

\* The first pass of url.QueryUnescape: every % is followed by two hex
\* digits.
RECURSIVE EscapesValid(_)
EscapesValid(s) ==
    IF s = << >> THEN TRUE
    ELSE IF Head(s) = "%"
        THEN /\ Len(s) >= 3
             /\ s[2] \in HexDigits
             /\ s[3] \in HexDigits
             /\ EscapesValid(SubSeq(s, 4, Len(s)))
        ELSE EscapesValid(Tail(s))

\* The second pass: %XX becomes its byte and + becomes a space.
RECURSIVE Unescaped(_)
Unescaped(s) ==
    IF s = << >> THEN << >>
    ELSE IF Head(s) = "%"
        THEN <<UnhexByte(s[2], s[3])>> \o Unescaped(SubSeq(s, 4, Len(s)))
    ELSE IF Head(s) = "+"
        THEN <<" ">> \o Unescaped(Tail(s))
    ELSE <<Head(s)>> \o Unescaped(Tail(s))

\* url.QueryUnescape
QueryUnescape(s) ==
    IF EscapesValid(s)
        THEN [ok |-> TRUE, text |-> Unescaped(s)]
        ELSE [ok |-> FALSE, text |-> << >>]

\* The regular expression class [A-Za-z].
Letters == AZ \cup {LowerLetters[i] : i \in DOMAIN LowerLetters}

\* Variant of HandlerPatternMatch: every text is taken for a postcode.
HandlerPatternMatchAny(s) == TRUE

\* The handler's postcodePattern.MatchString:
\*   ^[A-Za-z]{1,2}\d{1,2}[A-Za-z]?\s?\d[A-Za-z]{2}$
HandlerPatternMatch(s) ==
    \E a \in 1 .. 2, b \in 1 .. 2, c \in 0 .. 1, d \in 0 .. 1 :
        /\ Len(s) = a + b + c + d + 3
        /\ \A i \in 1 .. a : s[i] \in Letters
        /\ \A i \in a + 1 .. a + b : s[i] \in Digits
        /\ c = 1 => s[a + b + 1] \in Letters
        /\ d = 1 => s[a + b + c + 1] \in WhiteSpace
        /\ s[a + b + c + d + 1] \in Digits
        /\ s[a + b + c + d + 2] \in Letters
        /\ s[a + b + c + d + 3] \in Letters

CalendarPrefix == <<"/", "c", "a", "l", "e", "n", "d", "a", "r", "/">>
IcsSuffix == <<".", "i", "c", "s">>

\* The paths requests come with: the page, the anonymous feed, and
\* personalized feeds for "SW1 5TU" (escaped two ways), for a text that is
\* no postcode, for a bad escape and for the empty postcode.
Paths ==
    {<<"/">>,
     <<"/", "c", "a", "l", "e", "n", "d", "a", "r", ".", "i", "c", "s">>,
     <<"/", "c", "a", "l", "e", "n", "d", "a", "r", "/", "S", "W", "1", "%", "2", "0", "5", "T", "U", ".", "i", "c", "s">>,
     <<"/", "c", "a", "l", "e", "n", "d", "a", "r", "/", "s", "w", "1", "+", "5", "t", "u", ".", "i", "c", "s">>,
     <<"/", "c", "a", "l", "e", "n", "d", "a", "r", "/", "S", "W", "1", "5", ".", "i", "c", "s">>,
     <<"/", "c", "a", "l", "e", "n", "d", "a", "r", "/", "%", "z", "z", ".", "i", "c", "s">>,
     <<"/", "c", "a", "l", "e", "n", "d", "a", "r", "/", ".", "i", "c", "s">>}

\* The routing of the serverless Handler.
Route(path) ==
    IF path = <<"/", "c", "a", "l", "e", "n", "d", "a", "r", ".", "i", "c", "s">> THEN "default"
    ELSE IF HasPrefix(path, CalendarPrefix) /\ HasSuffix(path, IcsSuffix)
        THEN "postcode"
    ELSE "index"

\* No response written yet.
NoResponse == [status |-> 0, body |-> "", list |-> NilList]

BadRequest(text) == [status |-> 400, body |-> text, list |-> NilList]
ServerError(text) == [status |-> 500, body |-> text, list |-> NilList]

\* HandleCalendarPostcode up to the call of geocodePostcode: the response
\* it writes, or no response when the postcode passes.
ValidatePostcode(path) ==
    LET postcode == QueryUnescape(
            TrimSuffix(TrimPrefix(path, CalendarPrefix), IcsSuffix))
    IN  IF ~HasPrefix(path, CalendarPrefix) \/ ~HasSuffix(path, IcsSuffix)
            THEN BadRequest("Invalid path")
        ELSE IF ~postcode.ok
            THEN BadRequest("Invalid postcode encoding")
        ELSE IF ~HandlerPatternMatch(postcode.text)
            THEN BadRequest("Invalid postcode format")
        ELSE NoResponse

\* What a request's handler has done so far: called geocodePostcode for the
\* user's postcode (and what came back), called getSkipLocations.
NoLog == [geocoded |-> FALSE, found |-> "na", looked |-> FALSE]
\* The outbound calls of a caller's scrape: the fetch of the council page
\* (not made, in flight, answered), the geocodePostcode calls of the loop
\* (one in flight, and how many have returned), and whether a call of the
\* request was ended by its client's Timeout.
NoGeo == [fetch |-> "none", inflight |-> FALSE, made |-> 0,
          timedOut |-> FALSE]

\* The callers with a geocodePostcode call in flight: the handlers waiting
\* for the user's coordinates and the scrapes inside their geocoding loop.
HandlerGeocoding == {p \in Procs : hPc[p] = "geocoding"}
ScrapeGeocoding == {p \in Procs : hGeo[p].inflight}

\* Handler takes a request, on a goroutine of its own: InitCache, then the
\* handler of the path.  The
\* page and the anonymous feed call getSkipLocations at once; the
\* personalized feed validates the postcode and either answers 400 or
\* calls geocodePostcode.
HandlerEnter(p) ==
    /\ hPc[p] = "idle"
    /\ \E path \in Paths :
         LET invalid == ValidatePostcode(path)
         IN  /\ hReq' = [hReq EXCEPT ![p] = path]
             /\ IF Route(path) # "postcode"
                THEN /\ hPc' = [hPc EXCEPT ![p] = "waiting"]
                     /\ pc' = [pc EXCEPT ![p] = "call"]
                     /\ hResp' = [hResp EXCEPT ![p] = NoResponse]
                     /\ hLog' = [hLog EXCEPT ![p] =
                                     [NoLog EXCEPT !.looked = TRUE]]
                ELSE IF invalid # NoResponse
                THEN /\ hPc' = [hPc EXCEPT ![p] = "responded"]
                     /\ pc' = [pc EXCEPT ![p] = "idle"]
                     /\ hResp' = [hResp EXCEPT ![p] = invalid]
                     /\ hLog' = [hLog EXCEPT ![p] = NoLog]
                ELSE /\ hPc' = [hPc EXCEPT ![p] = "geocoding"]
                     /\ pc' = [pc EXCEPT ![p] = "idle"]
                     /\ hResp' = [hResp EXCEPT ![p] = NoResponse]
                     /\ hLog' = [hLog EXCEPT ![p] =
                                     [NoLog EXCEPT !.geocoded = TRUE]]
    /\ cacheTTL' = IF envTTL.set THEN envTTL.ttl ELSE cacheTTL
    /\ ret' = [ret EXCEPT ![p] = NoReturn]
    /\ hist' = [hist EXCEPT ![p] = NoHist]
    /\ locs' = [locs EXCEPT ![p] = NilList]
    /\ hGeo' = [hGeo EXCEPT ![p] = NoGeo]
    /\ UNCHANGED <<now, envTTL, cacheData, cacheTimestamp, readers, writers,
                   lastGood>>
    /\ UNCHANGED <<backendVars, rtVars, scrapeVars, calCoreVars>>

\* geocodePostcode returns to HandleCalendarPostcode: with an error the
\* handler answers 400, with coordinates it calls getSkipLocations.
HandlerGeocodeReturn(p) ==
    /\ hPc[p] = "geocoding"
    /\ \E found \in BOOLEAN :
         IF found
         THEN /\ hPc' = [hPc EXCEPT ![p] = "waiting"]
              /\ pc' = [pc EXCEPT ![p] = "call"]
              /\ hLog' = [hLog EXCEPT ![p].looked = TRUE,
                                      ![p].found = "yes"]
              /\ hResp' = hResp
         ELSE /\ hPc' = [hPc EXCEPT ![p] = "responded"]
              /\ pc' = pc
              /\ hLog' = [hLog EXCEPT ![p].found = "no"]
              /\ hResp' = [hResp EXCEPT ![p] =
                              BadRequest("Could not find postcode location")]
    /\ UNCHANGED <<hReq, hGeo>>
    /\ UNCHANGED <<now, envTTL, cacheData, cacheTimestamp, cacheTTL, readers,
                   writers, locs, ret, hist, lastGood>>
    /\ UNCHANGED <<backendVars, rtVars, scrapeVars, calCoreVars>>

\* Variant of HandlerRespond: a failed lookup is answered as an empty list.
HandlerRespondEmptyOnError(p) ==
    /\ hPc[p] = "waiting"
    /\ pc[p] = "done"
    /\ hPc' = [hPc EXCEPT ![p] = "responded"]
    /\ hResp' = [hResp EXCEPT ![p] =
                    [status |-> 200,
                     body |-> IF Route(hReq[p]) = "index" THEN "page"
                              ELSE "feed",
                     list |-> ret[p].list]]
    /\ UNCHANGED <<hReq, hLog, hGeo>>
    /\ UNCHANGED <<now, svcVars>>
    /\ UNCHANGED <<backendVars, rtVars, scrapeVars, calCoreVars>>

\* getSkipLocations has returned to the handler: an error is answered 500
\* with the handler's error text, a list is rendered (the page) or turned
\* into the feed and written with the implicit status 200.
HandlerRespond(p) ==
    /\ hPc[p] = "waiting"
    /\ pc[p] = "done"
    /\ hPc' = [hPc EXCEPT ![p] = "responded"]
    /\ hResp' = [hResp EXCEPT ![p] =
                    IF ret[p].err # "none"
                    THEN IF Route(hReq[p]) = "index"
                         THEN ServerError("Failed to fetch skip locations")
                         ELSE ServerError("Failed to generate calendar")
                    ELSE [status |-> 200,
                          body |-> IF Route(hReq[p]) = "index" THEN "page"
                                   ELSE "feed",
                          list |-> ret[p].list]]
    /\ UNCHANGED <<hReq, hLog, hGeo>>
    /\ UNCHANGED <<now, svcVars>>
    /\ UNCHANGED <<backendVars, rtVars, scrapeVars, calCoreVars>>

\* The scrape's geocoding loop, inside getSkipLocations' exclusive section:
\* the call of geocodePostcode for the next location of the page.
ScrapeGeocodeCall(p) ==
    /\ pc[p] = "scraping"
    /\ ~hGeo[p].inflight
    /\ \E page \in Pages : hGeo[p].made < Len(PageLocations(page))
    /\ hGeo' = [hGeo EXCEPT ![p].inflight = TRUE]
    /\ UNCHANGED <<hPc, hReq, hResp, hLog>>
    /\ UNCHANGED <<now, svcVars>>
    /\ UNCHANGED <<backendVars, rtVars, scrapeVars, calCoreVars>>

\* geocodePostcode returns to the loop, with coordinates or an error.
ScrapeGeocodeReturn(p) ==
    /\ pc[p] = "scraping"
    /\ hGeo[p].inflight
    /\ hGeo' = [hGeo EXCEPT ![p].inflight = FALSE,
                            ![p].made = hGeo[p].made + 1]
    /\ UNCHANGED <<hPc, hReq, hResp, hLog>>
    /\ UNCHANGED <<now, svcVars>>
    /\ UNCHANGED <<backendVars, rtVars, scrapeVars, calCoreVars>>

\* The scrape fails before its geocoding loop: the fetch, the status or the
\* parse of the document.
ScrapeFailEarly(p) ==
    /\ hGeo[p] = NoGeo
    /\ ScrapeFail(p)

\* The scrape returns its list after one geocodePostcode call for each of
\* its locations.
ScrapeOkGeocoded(p) ==
    /\ ~hGeo[p].inflight
    /\ ScrapeOk(p)
    /\ Len(locs'[p].items) = hGeo[p].made

\* http.Client.Timeout of the client each outbound call is made with, in
\* seconds; zero means no timeout.  The page is fetched with http.Get, that
\* is with http.DefaultClient, whose Timeout is zero.
ClientTimeout == [page |-> 0, geocode |-> 10, redis |-> 10]

\* scrapeCouncilWebsite, inside the exclusive section: http.Get(url).
FetchCall(p) ==
    /\ pc[p] = "scraping"
    /\ hGeo[p].fetch = "none"
    /\ hGeo' = [hGeo EXCEPT ![p].fetch = "inflight"]
    /\ UNCHANGED <<hPc, hReq, hResp, hLog>>
    /\ UNCHANGED <<now, svcVars>>
    /\ UNCHANGED <<backendVars, rtVars, scrapeVars, calCoreVars>>

\* The council's server answers: http.Get returns a response or an error.
FetchReturn(p) ==
    /\ pc[p] = "scraping"
    /\ hGeo[p].fetch = "inflight"
    /\ \E answer \in {"ok", "failed"} :
          hGeo' = [hGeo EXCEPT ![p].fetch = answer]
    /\ UNCHANGED <<hPc, hReq, hResp, hLog>>
    /\ UNCHANGED <<now, svcVars>>
    /\ UNCHANGED <<backendVars, rtVars, scrapeVars, calCoreVars>>

\* The outbound calls request p has in flight.
CallsInFlight(p) ==
    {call \in {"page"} : pc[p] = "scraping" /\ hGeo[p].fetch = "inflight"}
    \cup {call \in {"geocode"} : pc[p] = "scraping" /\ hGeo[p].inflight}
    \cup {call \in {"user"} : hPc[p] = "geocoding"}

\* The client each call is made with.
ClientOf == [page |-> "page", geocode |-> "geocode", user |-> "geocode"]

\* The Timeout of the client of a call in flight expires and the call
\* returns an error: to the scrape's fetch, to the scrape's geocoding loop
\* or to the handler waiting for the user's coordinates.
CallTimesOut(p) ==
    /\ \E call \in CallsInFlight(p) :
          /\ ClientTimeout[ClientOf[call]] > 0
          /\ hGeo' = [hGeo EXCEPT
                 ![p].fetch = IF call = "page" THEN "failed" ELSE @,
                 ![p].inflight = IF call = "geocode" THEN FALSE ELSE @,
                 ![p].made = IF call = "geocode" THEN @ + 1 ELSE @,
                 ![p].timedOut = TRUE]
          /\ hPc' = IF call = "user"
                    THEN [hPc EXCEPT ![p] = "responded"] ELSE hPc
          /\ hLog' = IF call = "user"
                     THEN [hLog EXCEPT ![p].found = "no"] ELSE hLog
          /\ hResp' = IF call = "user"
                      THEN [hResp EXCEPT ![p] =
                              BadRequest("Could not find postcode location")]
                      ELSE hResp
    /\ UNCHANGED hReq
    /\ UNCHANGED <<now, svcVars>>
    /\ UNCHANGED <<backendVars, rtVars, scrapeVars, calCoreVars>>

\* The fetch has failed: scrapeCouncilWebsite returns the error.
ScrapeFailFetched(p) ==
    /\ hGeo[p].fetch = "failed"
    /\ ScrapeFail(p)

\* The page has been fetched: the geocoding loop calls geocodePostcode.
ScrapeGeocodeCallFetched(p) ==
    /\ hGeo[p].fetch = "ok"
    /\ ScrapeGeocodeCall(p)

\* The page has been fetched and every location geocoded: the scrape
\* returns its list.
ScrapeOkFetched(p) ==
    /\ hGeo[p].fetch = "ok"
    /\ ScrapeOkGeocoded(p)

----------------------------------------------------------------------------
(* Initial states and specifications *)

\* Variant of SvcInit: the package variable starts with a TTL of two hours.
SvcInitTwoHours ==
    /\ cacheData = NilList
    /\ cacheTimestamp = ZeroTime
    /\ cacheTTL = DefaultTTL + 1
    /\ readers = {}
    /\ writers = {}
    /\ pc = [p \in Procs |-> "idle"]
    /\ locs = [p \in Procs |-> NilList]
    /\ ret = [p \in Procs |-> NoReturn]
    /\ hist = [p \in Procs |-> NoHist]
    /\ lastGood = <<NilList, ZeroTime>>

\* The package-level cache as the program starts.
SvcInit ==
    /\ cacheData = NilList
    /\ cacheTimestamp = ZeroTime
    /\ cacheTTL = DefaultTTL
    /\ readers = {}
    /\ writers = {}
    /\ pc = [p \in Procs |-> "idle"]
    /\ locs = [p \in Procs |-> NilList]
    /\ ret = [p \in Procs |-> NoReturn]
    /\ hist = [p \in Procs |-> NoHist]
    /\ lastGood = <<NilList, ZeroTime>>

\* No request has come in.
HandlerInit ==
    /\ hPc = [p \in Procs |-> "idle"]
    /\ hReq = [p \in Procs |-> << >>]
    /\ hResp = [p \in Procs |-> NoResponse]
    /\ hLog = [p \in Procs |-> NoLog]
    /\ hGeo = [p \in Procs |-> NoGeo]

\* NewMemoryCache and an empty remote store.
BackendInit ==
    /\ memData = [k \in Keys |-> NoEntry]
    /\ redisStore = [k \in Keys |-> NoValue]
    /\ lastOp = NoOp

RtInit ==
    /\ rtPc = [p \in Procs |-> "idle"]
    /\ rtRet = [p \in Procs |-> NoReturn]
    /\ rtHist = [p \in Procs |-> NoRtHist]
    /\ rtMutex = {}

\* The geocoding loop has not started.
GeoOff ==
    /\ geoIdx = 1
    /\ geoWake = 0
    /\ geoCalls = << >>
    /\ survivors = << >>
    /\ scrapeRet = NoScrapeReturn

\* No scrape is running.
ScrapeOff ==
    /\ parsed = << >>
    /\ zone = 0
    /\ filtered = << >>
    /\ scrapePc = "off"
    /\ GeoOff
    /\ element = NoElement

\* No calendar request is being served.
CalOff ==
    /\ calPc = "off"
    /\ calReq = [personal |-> FALSE, lat |-> 0, lng |-> 0]
    /\ calLocations = << >>
    /\ calGroups = << >>
    /\ calEvents = << >>
    /\ calFeed = << >>
    /\ calOrder = << >>
    /\ calNearest = NoNearest
    /\ escIn = << >>
    /\ escOut = << >>

\* Requests served by getSkipLocations over the package-level cache.
Init ==
    /\ now = 0
    /\ envTTL \in EnvTTLs
    /\ SvcInit
    /\ BackendInit
    /\ RtInit
    /\ HandlerInit
    /\ CalOff
    /\ ScrapeOff

Next ==
    \/ Tick
    \/ \E p \in Procs : InitCache(p)
    \/ \E p \in Procs : RLock(p)
    \/ \E p \in Procs : Check1(p)
    \/ \E p \in Procs : Lock(p)
    \/ \E p \in Procs : LockAcquired(p)
    \/ \E p \in Procs : Check2(p)
    \/ \E p \in Procs : ScrapeFail(p)
    \/ \E p \in Procs : ScrapeOk(p)
    \/ \E p \in Procs : StoreData(p)
    \/ \E p \in Procs : StoreTimestamp(p)

Spec == Init /\ [][Next]_vars

\* The two Cacher backends driven by the same operations and clock.
InitCacheSpec ==
    /\ now = 0
    /\ envTTL = [set |-> FALSE, ttl |-> 0]
    /\ SvcInit
    /\ BackendInit
    /\ RtInit
    /\ HandlerInit
    /\ CalOff
    /\ ScrapeOff

NextCache ==
    \/ CacheSet
    \/ CacheGet
    \/ CacheTick

SpecCache == InitCacheSpec /\ [][NextCache]_vars

\* Requests served by the read-through service over RedisCache.
NextSvc ==
    \/ RtTick
    \/ \E p \in Procs : RtGet1(p)
    \/ \E p \in Procs : RtEnter(p)
    \/ \E p \in Procs : RtGet2(p)
    \/ \E p \in Procs : RtFetchFail(p)
    \/ \E p \in Procs : RtFetchOk(p)
    \/ \E p \in Procs : RtSet(p)

SpecSvc == InitCacheSpec /\ [][NextSvc]_vars

\* One scrape, at any hour, in either half of the year, of any parsed list.
InitScrapeSpec ==
    /\ now \in 0 .. ((MaxDay + 1) * HoursPerDay - 1)
    /\ zone \in Zones
    /\ parsed \in ParsedLists
    /\ filtered = << >>
    /\ scrapePc = "parsed"
    /\ GeoOff
    /\ element = NoElement
    /\ envTTL = [set |-> FALSE, ttl |-> 0]
    /\ SvcInit
    /\ BackendInit
    /\ RtInit
    /\ HandlerInit
    /\ CalOff

NextScrape ==
    \/ ScrapeFilter

SpecScrape == InitScrapeSpec /\ [][NextScrape]_vars

\* One scrape from the end of the date filter to its return.
InitGeocodeSpec ==
    /\ now = 0
    /\ zone = 0
    /\ parsed = << >>
    /\ filtered \in FilteredLists
    /\ survivors = filtered
    /\ scrapePc = "geocoding"
    /\ geoIdx = 1
    /\ geoWake = 0
    /\ geoCalls = << >>
    /\ scrapeRet = NoScrapeReturn
    /\ element = NoElement
    /\ envTTL = [set |-> FALSE, ttl |-> 0]
    /\ SvcInit
    /\ BackendInit
    /\ RtInit
    /\ HandlerInit
    /\ CalOff

NextGeocode ==
    \/ GeocodeCall
    \/ GeocodeFail
    \/ GeocodeOk
    \/ GeocodeSleepDone
    \/ GeocodeReturn
    \/ GeoTick

SpecGeocode == InitGeocodeSpec /\ [][NextGeocode]_vars

\* parseLocations on one element under a date heading.
InitParseSpec ==
    /\ now = 0
    /\ zone = 0
    /\ parsed = << >>
    /\ filtered = << >>
    /\ scrapePc = "element"
    /\ GeoOff
    /\ element \in Elements(MaxChunks)
    /\ envTTL = [set |-> FALSE, ttl |-> 0]
    /\ SvcInit
    /\ BackendInit
    /\ RtInit
    /\ HandlerInit
    /\ CalOff

NextParse ==
    \/ ParseElement

SpecParse == InitParseSpec /\ [][NextParse]_vars

\* One calendar request, from the list getSkipLocations returned to the
\* feed.
InitCalSpec ==
    /\ now = 0
    /\ envTTL = [set |-> FALSE, ttl |-> 0]
    /\ SvcInit
    /\ BackendInit
    /\ RtInit
    /\ HandlerInit
    /\ ScrapeOff
    /\ calPc = "located"
    /\ calReq \in CalRequests
    /\ calLocations \in CalLists
    /\ calGroups = << >>
    /\ calEvents = << >>
    /\ calFeed = << >>
    /\ calOrder = << >>
    /\ calNearest = NoNearest
    /\ escIn = << >>
    /\ escOut = << >>

NextCal ==
    \/ CalGroup
    \/ CalBuildEvents
    \/ CalSort
    \/ CalWrite

SpecCal == InitCalSpec /\ [][NextCal]_vars

\* findNearestSkipForDate called on any list, date and user coordinate.
InitNearestSpec ==
    /\ now = 0
    /\ envTTL = [set |-> FALSE, ttl |-> 0]
    /\ SvcInit
    /\ BackendInit
    /\ RtInit
    /\ HandlerInit
    /\ ScrapeOff
    /\ calPc = "nearest"
    /\ calReq \in {r \in CalRequests : r.personal}
    /\ calLocations \in CalLists
    /\ calGroups = << >>
    /\ calEvents = << >>
    /\ calFeed = << >>
    /\ calOrder = << >>
    /\ calNearest = NoNearest
    /\ escIn = << >>
    /\ escOut = << >>

NextNearest ==
    \/ CallFindNearest

SpecNearest == InitNearestSpec /\ [][NextNearest]_vars

\* escapeICalText called on any text.
InitEscapeSpec ==
    /\ now = 0
    /\ envTTL = [set |-> FALSE, ttl |-> 0]
    /\ SvcInit
    /\ BackendInit
    /\ RtInit
    /\ HandlerInit
    /\ ScrapeOff
    /\ calPc = "escape"
    /\ calReq = [personal |-> FALSE, lat |-> 0, lng |-> 0]
    /\ calLocations = << >>
    /\ calGroups = << >>
    /\ calEvents = << >>
    /\ calFeed = << >>
    /\ calOrder = << >>
    /\ calNearest = NoNearest
    /\ escIn \in UNION {[1 .. n -> TextChars] : n \in 0 .. MaxText}
    /\ escOut = << >>

NextEscape ==
    \/ CallEscape

SpecEscape == InitEscapeSpec /\ [][NextEscape]_vars


\* Concurrent requests served by the serverless Handler.
InitHandlerSpec ==
    /\ now = 0
    /\ envTTL = [set |-> FALSE, ttl |-> 0]
    /\ SvcInit
    /\ BackendInit
    /\ RtInit
    /\ HandlerInit
    /\ CalOff
    /\ ScrapeOff

NextHandler ==
    \/ \E p \in Procs : HandlerEnter(p)
    \/ \E p \in Procs : HandlerGeocodeReturn(p)
    \/ \E p \in Procs : HandlerRespond(p)
    \/ \E p \in Procs : RLock(p)
    \/ \E p \in Procs : Check1(p)
    \/ \E p \in Procs : Lock(p)
    \/ \E p \in Procs : LockAcquired(p)
    \/ \E p \in Procs : Check2(p)
    \/ \E p \in Procs : ScrapeFailEarly(p)
    \/ \E p \in Procs : ScrapeGeocodeCall(p)
    \/ \E p \in Procs : ScrapeGeocodeReturn(p)
    \/ \E p \in Procs : ScrapeOkGeocoded(p)
    \/ \E p \in Procs : StoreData(p)
    \/ \E p \in Procs : StoreTimestamp(p)

SpecHandler == InitHandlerSpec /\ [][NextHandler]_vars

\* The steps of request p that the program takes without waiting for an
\* upstream: the lock operations, the checks, the calls, the stores, the
\* response, and the expiry of a client's Timeout.
OutboundLocalStep(p) ==
    \/ HandlerRespond(p)
    \/ RLock(p)
    \/ Check1(p)
    \/ Lock(p)
    \/ LockAcquired(p)
    \/ Check2(p)
    \/ FetchCall(p)
    \/ CallTimesOut(p)
    \/ ScrapeFailFetched(p)
    \/ ScrapeGeocodeCallFetched(p)
    \/ ScrapeOkFetched(p)
    \/ StoreData(p)
    \/ StoreTimestamp(p)

NextOutbound ==
    \/ \E p \in Procs : HandlerEnter(p)
    \/ \E p \in Procs : HandlerGeocodeReturn(p)
    \/ \E p \in Procs : FetchReturn(p)
    \/ \E p \in Procs : ScrapeGeocodeReturn(p)
    \/ \E p \in Procs : OutboundLocalStep(p)

\* Requests whose outbound calls may never be answered: the scheduler runs
\* every goroutine that can take a step and the clients' timers fire, but
\* nothing makes an upstream answer.
SpecOutbound ==
    /\ InitHandlerSpec
    /\ [][NextOutbound]_vars
    /\ \A p \in Procs : WF_vars(OutboundLocalStep(p))

\* Requests served by getSkipLocations with the default TTL, within one
\* hour: a list, once cached, stays fresh.
InitLive ==
    /\ now = 0
    /\ envTTL = [set |-> FALSE, ttl |-> 0]
    /\ SvcInit
    /\ BackendInit
    /\ RtInit
    /\ HandlerInit
    /\ CalOff
    /\ ScrapeOff

NextLive ==
    \/ \E p \in Procs : InitCache(p)
    \/ \E p \in Procs : RLock(p)
    \/ \E p \in Procs : Check1(p)
    \/ \E p \in Procs : Lock(p)
    \/ \E p \in Procs : LockAcquired(p)
    \/ \E p \in Procs : Check2(p)
    \/ \E p \in Procs : ScrapeFail(p)
    \/ \E p \in Procs : ScrapeOk(p)
    \/ \E p \in Procs : StoreData(p)
    \/ \E p \in Procs : StoreTimestamp(p)

\* The steps of getSkipLocations that wait for nothing: the two checks, the
\* return of the scrape (every scrape ends) and the two stores.
RunningStep(p) ==
    \/ Check1(p)
    \/ Check2(p)
    \/ ScrapeFail(p)
    \/ ScrapeOk(p)
    \/ StoreData(p)
    \/ StoreTimestamp(p)

\* The scheduler runs every goroutine that is not blocked; the writer that
\* has announced itself gets the lock once the readers have left; and
\* sync.RWMutex lets no goroutine that asks for the lock starve: a blocked
\* RLock or Lock is granted after finitely many releases.
SpecLive ==
    /\ InitLive
    /\ [][NextLive]_vars
    /\ \A p \in Procs : WF_vars(RunningStep(p))
    /\ \A p \in Procs : WF_vars(LockAcquired(p))
    /\ \A p \in Procs : SF_vars(RLock(p))
    /\ \A p \in Procs : SF_vars(Lock(p))

----------------------------------------------------------------------------
(* Properties of getSkipLocations *)

\* The cache holds a list whose age is below the TTL.
WithinTTL == ~cacheData.isNil /\ now - cacheTimestamp < cacheTTL

\* The calls whose scrape of the council site is in flight.
ScrapesInFlight == {p \in Procs : pc[p] = "scraping"}

\* p has called the scraper in its current call.
HasScraped(p) ==
    \/ pc[p] \in {"scraping", "store1", "store2"}
    \/ ret[p].src \in {"scrape", "error"}

\* C1: for any number of concurrent callers, at most one scrape of the
\* council site is in flight at any moment.
C1_AtMostOneScrape == Cardinality(ScrapesInFlight) <= 1

\* A scrape is in flight while another caller, having missed, waits for it.
C1_Witness ==
    \E p, q \in Procs :
        /\ p # q
        /\ pc[p] = "scraping"
        /\ pc[q] = "lock"
        /\ hist[q].first = "stale"

\* C2: a call whose first check finds a list younger than the TTL returns
\* that list and does not scrape, and no call starts a scrape while the
\* cached list is younger than the TTL.
C2_FreshCallNeverScrapes ==
    [][\A p \in Procs :
          /\ (pc[p] = "check1" /\ pc'[p] # "check1" /\ WithinTTL)
                => /\ pc'[p] = "done"
                   /\ ret'[p] = [list |-> cacheData, err |-> "none",
                                 src |-> "cache"]
          /\ (pc[p] # "scraping" /\ pc'[p] = "scraping") => ~WithinTTL
      ]_vars

\* One call has scraped and a second one was served the list from the
\* first check.
C2_Witness ==
    \E p, q \in Procs :
        /\ p # q
        /\ ret[p].src = "scrape"
        /\ ret[q].src = "cache"
        /\ hist[q].first = "fresh"
        /\ ret[q].list = ret[p].list
        /\ ret[q].list.items # << >>

\* C3 as stated: a caller that was waiting for the exclusive section while
\* another caller's scrape succeeded never scrapes in that call.
C3_WaitersNeverScrape ==
    \A p \in Procs : hist[p].refreshedWhileWaiting => ~HasScraped(p)

\* C3 as amended: such a caller re-checks inside the exclusive section; when
\* the list is still younger than the TTL at the re-check it returns that
\* freshly cached list without scraping, and otherwise it scrapes.
C3_WaitersRecheck ==
    [][\A p \in Procs :
          (pc[p] = "check2" /\ pc'[p] # "check2"
              /\ hist[p].refreshedWhileWaiting)
             => IF WithinTTL
                THEN /\ pc'[p] = "done"
                     /\ ret'[p] = [list |-> lastGood[1], err |-> "none",
                                   src |-> "cache"]
                     /\ cacheData' = cacheData
                     /\ cacheTimestamp' = cacheTimestamp
                ELSE pc'[p] = "scraping"
      ]_vars

\* A caller that waited through another caller's successful scrape was
\* served by the double-check.
C3_Witness ==
    \E p, q \in Procs :
        /\ p # q
        /\ ret[q].src = "scrape"
        /\ hist[p].refreshedWhileWaiting
        /\ hist[p].first = "stale"
        /\ hist[p].second = "fresh"
        /\ ret[p].src = "cache"
        /\ ret[p].list = ret[q].list

\* C4: when the scrape fails the call returns an error and no list, and the
\* stored list and its timestamp are as they were when the call entered
\* the exclusive section.
C4_FailedScrapeLeavesCache ==
    [][\A p \in Procs :
          (pc[p] = "scraping" /\ ret'[p].err # "none")
             => /\ ret'[p].list = NilList
                /\ cacheData' = hist[p].snapData
                /\ cacheTimestamp' = hist[p].snapTime
                /\ cacheTTL' = cacheTTL
      ]_vars

\* A refresh of an expired entry has failed and the entry is still stored.
C4_Witness ==
    \E p \in Procs :
        /\ ret[p].err # "none"
        /\ ret[p].list = NilList
        /\ ~cacheData.isNil
        /\ cacheTimestamp <= now - cacheTTL

\* C5: a list returned without scraping is the cached list and is younger
\* than the TTL at the check that returns it; an error return carries no
\* list.
C5_NeverServesExpired ==
    [][\A p \in Procs :
          /\ (ret'[p].src = "cache" /\ ret[p].src # "cache")
                => /\ ~cacheData.isNil
                   /\ now - cacheTimestamp < cacheTTL
                   /\ ret'[p].list = cacheData
          /\ (ret'[p].err # "none") => ret'[p].list = NilList
      ]_vars

\* A call found a list of age exactly the TTL and did not return it, while
\* another call had been served the list when it was younger.
C5_Witness ==
    \E p, q \in Procs :
        /\ p # q
        /\ ret[q].src = "cache"
        /\ pc[p] = "lock"
        /\ hist[p].first = "stale"
        /\ ~cacheData.isNil
        /\ cacheTTL > 0
        /\ now - cacheTimestamp = cacheTTL

\* C6: whenever a call inspects the cache (first check or double-check), the
\* stored list and timestamp are the pair the most recent successful refresh
\* wrote, or the initial empty cache; a list returned from a scrape is a
\* whole scrape result.
C6_ReadersSeeWholeRefresh ==
    \A p \in Procs :
        /\ pc[p] \in {"check1", "check2"}
              => /\ <<cacheData, cacheTimestamp>> = lastGood
                 /\ cacheData \in ScrapeLists \cup {NilList}
                 /\ cacheData.isNil <=> cacheTimestamp = ZeroTime
        /\ ret[p].src = "scrape" => ret[p].list \in ScrapeLists

\* A refresh is between its two writes (new list, old timestamp) and the
\* other caller is kept out at RLock.
C6_Witness ==
    \E p, q \in Procs :
        /\ p # q
        /\ pc[q] = "store2"
        /\ <<cacheData, cacheTimestamp>> # lastGood
        /\ cacheTimestamp # ZeroTime
        /\ pc[p] = "call"

----------------------------------------------------------------------------
(* Properties of the Cacher backends *)

\* C7: MemoryCache.Get is a hit iff the key has an entry and now < expiry;
\* at now = expiry and later it is a miss.
C7_HitIffBeforeExpiry ==
    lastOp.op = "get"
       => LET e == memData[lastOp.key]
          IN  /\ lastOp.mem.why = "hit" <=> (e.present /\ lastOp.at < e.expiresAt)
              /\ (e.present /\ lastOp.at >= e.expiresAt)
                    => lastOp.mem.why = "expired"

\* A Get at the very instant of the entry's expiry.
C7_Witness ==
    /\ lastOp.op = "get"
    /\ memData[lastOp.key].present
    /\ lastOp.at = memData[lastOp.key].expiresAt
    /\ ~memData[lastOp.key].locations.isNil

\* What MemoryCache.Get does: a hit iff the key has an entry and
\* now <= expiry, and Get leaves the map as it is.
C7_HitThroughExpiry ==
    /\ lastOp.op = "get"
          => LET e == memData[lastOp.key]
             IN  lastOp.mem.why = "hit" <=> (e.present /\ lastOp.at <= e.expiresAt)
    /\ lastOp.op = "get" /\ lastOp.mem.why = "expired"
          => memData[lastOp.key].present

\* C8: after the same Sets at the same instants, a Get returns the same
\* list (and so the same hit or miss) from MemoryCache and from RedisCache.
C8_BackendsAgree ==
    (lastOp.op = "get" /\ lastOp.redis.err = "none")
       => lastOp.mem.list = lastOp.redis.list

\* A Get strictly inside the TTL of a Set whose TTL is no whole number of
\* seconds and longer than one second.
C8_Witness ==
    /\ lastOp.op = "get"
    /\ memData[lastOp.key].present
    /\ lastOp.at < memData[lastOp.key].expiresAt
    /\ redisStore[lastOp.key].present
    /\ lastOp.at > redisStore[lastOp.key].expireAt
    /\ lastOp.mem.list # lastOp.redis.list

----------------------------------------------------------------------------
(* Properties of the read-through service *)

----------------------------------------------------------------------------
(* Properties of the scrape *)

\* The calendar day it is in London, and the day a location is dated.
Today == (now + zone) \div HoursPerDay
DateDay(l) == l.date \div HoursPerDay

\* C10: a scrape returns exactly the parsed locations dated today or later,
\* in parsed order: a location dated today is kept at any time of day, a
\* location dated before today is dropped.
C10_KeepsTodayAndLater ==
    scrapePc = "filtered"
       => filtered = SelectSeq(parsed, LAMBDA l : DateDay(l) >= Today)

\* A scrape in the first hour of a London summer day of a page that lists
\* the day before.
C10_Witness ==
    /\ scrapePc = "filtered"
    /\ zone = 1
    /\ now % HoursPerDay = HoursPerDay - 1
    /\ \E i \in 1 .. Len(parsed) : DateDay(parsed[i]) = Today - 1

\* What the filter does: it keeps exactly the locations dated on or after
\* the UTC day of the scrape.
C10_KeepsUtcTodayAndLater ==
    scrapePc = "filtered"
       => filtered = SelectSeq(parsed,
                               LAMBDA l : DateDay(l) >= now \div HoursPerDay)

----------------------------------------------------------------------------
(* Properties of the geocoding loop *)

\* Whether the call made for the location at index i failed.
GeocodeFailedAt(i) ==
    \E k \in 1 .. Len(geoCalls) :
        geoCalls[k].idx = i /\ geoCalls[k].end >= 0 /\ ~geoCalls[k].ok

\* C11: a geocoding failure is not fatal: the scrape returns no error, its
\* result holds every location the date filter left, in order and with only
\* the coordinates changed, and a location whose call failed still has the
\* coordinates (0,0) while the others got theirs.
C11_GeocodeFailureNonFatal ==
    scrapePc = "returned"
       => /\ scrapeRet.err = "none"
          /\ Len(scrapeRet.list) = Len(survivors)
          /\ \A i \in 1 .. Len(survivors) :
                /\ scrapeRet.list[i].address = survivors[i].address
                /\ scrapeRet.list[i].date = survivors[i].date
                /\ GeocodeFailedAt(i)
                      => /\ scrapeRet.list[i].latitude = 0
                         /\ scrapeRet.list[i].longitude = 0
                /\ ~GeocodeFailedAt(i)
                      => <<scrapeRet.list[i].latitude,
                           scrapeRet.list[i].longitude>> \in GeoCoords

\* A scrape has returned three locations of which the middle one failed to
\* geocode.
C11_Witness ==
    /\ scrapePc = "returned"
    /\ Len(scrapeRet.list) = 3
    /\ GeocodeFailedAt(2)
    /\ ~GeocodeFailedAt(1)
    /\ ~GeocodeFailedAt(3)
    /\ scrapeRet.list[2].latitude = 0
    /\ scrapeRet.list[3].latitude # 0

\* C12: the geocoding calls are made one at a time in list order, and the
\* fixed delay passes between the end of a call and the start of the next,
\* whether the earlier call succeeded or failed.
C12_DelayBetweenCalls ==
    \A k \in 1 .. Len(geoCalls) :
        /\ geoCalls[k].idx = k
        /\ k < Len(geoCalls)
              => /\ geoCalls[k].end >= 0
                 /\ geoCalls[k + 1].start >= geoCalls[k].end + SleepTicks

\* A call has started in the same instant the failed call before it ended.
C12_Witness ==
    \E k \in 1 .. Len(geoCalls) - 1 :
        /\ ~geoCalls[k].ok
        /\ geoCalls[k + 1].start = geoCalls[k].end

\* What the loop does: calls are made one at a time in list order, and the
\* delay passes after every call that succeeded.
C12_DelayAfterSuccess ==
    \A k \in 1 .. Len(geoCalls) :
        /\ geoCalls[k].idx = k
        /\ k < Len(geoCalls)
              => /\ geoCalls[k].end >= 0
                 /\ geoCalls[k + 1].start >= geoCalls[k].end
                 /\ geoCalls[k].ok
                       => geoCalls[k + 1].start
                             >= geoCalls[k].end + SleepTicks

----------------------------------------------------------------------------
(* Properties of the parser *)

\* C13: for every line the parser produces either a record whose postcode
\* matches the postal-code grammar or no record; a record whose postcode
\* fails the grammar is never produced.
C13_PostcodeMatchesGrammar ==
    scrapePc = "parsed"
       => \A i \in 1 .. Len(parsed) : PostcodePatternMatch(parsed[i].postcode)

\* A record has been produced from a line whose text after the comma is not
\* a postcode and does not end in one.
C13_Witness ==
    /\ scrapePc = "parsed"
    /\ element.items = <<<<"R", "d", ",", "b", "y", " ", "b", "y", " ">>>>
    /\ Len(parsed) = 1
    /\ parsed[1].postcode = <<"B", "Y", " ", "B", "Y">>

\* What the parser does: the postcode of a record is the upper-cased text
\* after the first comma, unless that text fails the grammar and its last
\* two words pass it, in which case it is those two words.
C13_PostcodeIsRemainderOrLastTwo ==
    scrapePc = "parsed"
       => \A i \in 1 .. Len(parsed) :
             \/ PostcodePatternMatch(parsed[i].postcode)
             \/ \E j \in 1 .. Len(element.items) + 1 :
                   LET text == IF j <= Len(element.items)
                                  THEN element.items[j] ELSE element.text
                       line == TrimSpace(TrimPrefix(TrimSpace(text),
                                                    <<"-">>))
                       rest == SubSeq(line, IndexIn(line, {","}) + 1,
                                      Len(line))
                   IN  parsed[i].postcode = ToUpper(TrimSpace(rest))

\* C14: every location in the list has a non-empty address and a non-empty
\* postcode: a line without a comma, with an empty address or with nothing
\* after the comma never enters the list.
C14_AddressAndPostcodeNonEmpty ==
    scrapePc = "parsed"
       => \A i \in 1 .. Len(parsed) :
             parsed[i].address # << >> /\ parsed[i].postcode # << >>

\* A line with nothing after its comma has entered the list.
C14_Witness ==
    /\ scrapePc = "parsed"
    /\ element.items = <<<<"R", "d", ",">>>>
    /\ Len(parsed) = 1
    /\ parsed[1].address = <<"R", "d">>
    /\ parsed[1].postcode = << >>

\* What the parser does: every location in the list has a non-empty address
\* with no comma in it, so a line without a comma or with an empty address
\* never enters the list.
C14_AddressNonEmpty ==
    scrapePc = "parsed"
       => \A i \in 1 .. Len(parsed) :
             /\ parsed[i].address # << >>
             /\ \A k \in 1 .. Len(parsed[i].address) :
                   parsed[i].address[k] # ","

----------------------------------------------------------------------------
(* Properties of the empty result *)

\* Whether no heading of the page parses as a date.
NoDateHeading(page) ==
    \A i \in 1 .. Len(page) : ~parseSkipDateOk(page[i].heading)

\* C15: a page from which no location is parsed makes the scrape succeed
\* with an empty list; getSkipLocations returns that list with no error and
\* caches it like any other, so a call that finds it within the TTL returns
\* the empty list from the cache without scraping.
C15_EmptyResultCached ==
    [][\A p \in Procs :
          /\ (pc[p] = "scraping" /\ hist'[p].page.scraped
                 /\ NoDateHeading(hist'[p].page.sections))
                => pc'[p] = "store1" /\ locs'[p] = Slice(<< >>)
          /\ (pc[p] = "store2" /\ pc'[p] = "done" /\ locs[p] = Slice(<< >>))
                => /\ ret'[p] = [list |-> Slice(<< >>), err |-> "none",
                                 src |-> "scrape"]
                   /\ cacheData' = Slice(<< >>)
                   /\ cacheTimestamp' = now
          /\ (pc[p] \in {"check1", "check2"} /\ pc'[p] # pc[p]
                 /\ cacheData = Slice(<< >>)
                 /\ now - cacheTimestamp < cacheTTL)
                => /\ pc'[p] = "done"
                   /\ ret'[p] = [list |-> Slice(<< >>), err |-> "none",
                                 src |-> "cache"]
      ]_vars

\* One call has scraped a page whose only heading is not a date and has
\* returned the empty list, and a later call was served the empty list from
\* the cache.
C15_Witness ==
    \E p, q \in Procs :
        /\ p # q
        /\ hist[p].page.scraped
        /\ Len(hist[p].page.sections) = 1
        /\ NoDateHeading(hist[p].page.sections)
        /\ ret[p] = [list |-> Slice(<< >>), err |-> "none", src |-> "scrape"]
        /\ ret[q] = [list |-> Slice(<< >>), err |-> "none", src |-> "cache"]
        /\ cacheData = Slice(<< >>)

----------------------------------------------------------------------------
(* Properties of the calendar feed *)

\* The calendar day of a date, and the days the handler's list has.
DayOf(t) == t \div HoursPerDay
DaysListed == {DayOf(calLocations[i].date) : i \in 1 .. Len(calLocations)}

\* C16: groupSkipsByDate partitions the list by calendar day: there is one
\* group per day of the list, the group of a day holds exactly the locations
\* of that day in input order, so every location is in exactly one group,
\* and the handler builds one event per group.
C16_GroupsPartitionByDay ==
    calPc \in {"grouped", "built", "sorted", "served"}
       => /\ {DayOf(d) : d \in DOMAIN calGroups} = DaysListed
          /\ Cardinality(DOMAIN calGroups) = Cardinality(DaysListed)
          /\ \A d \in DOMAIN calGroups :
                calGroups[d] = SelectSeq(calLocations,
                                   LAMBDA l : DayOf(l.date) = DayOf(d))
          /\ \A i \in 1 .. Len(calLocations) :
                Cardinality({<<d, k>> \in
                                UNION {{<<e, m>> : m \in DOMAIN calGroups[e]} :
                                          e \in DOMAIN calGroups} :
                                calGroups[d][k] = calLocations[i]}) = 1
          /\ calPc # "grouped"
                => /\ Len(calEvents) = Cardinality(DaysListed)
                   /\ {DayOf(calEvents[i].date) : i \in DOMAIN calEvents}
                         = DaysListed
          /\ calPc = "served"
                => Cardinality({i \in DOMAIN calFeed :
                                   calFeed[i].name = "BEGIN:VEVENT"})
                      = Cardinality(DaysListed)

\* A feed has been served for a list of three locations on two days, two of
\* them on the same day.
C16_Witness ==
    /\ calPc = "served"
    /\ Len(calLocations) = 3
    /\ Cardinality(DaysListed) = 2
    /\ \E d \in DOMAIN calGroups : Len(calGroups[d]) = 2
    /\ Len(calEvents) = 2

\* C17: findNearestSkipForDate returns nil iff no location of the list has
\* the target date; otherwise it returns a location of that date at the
\* least distance from the user among the locations of that date, and the
\* earliest of the list among those at that distance.
C17_NearestForDate ==
    calNearest.called
       => LET onDate == {i \in 1 .. Len(calLocations) :
                            DayOf(calLocations[i].date)
                               = DayOf(calNearest.date)}
              Dist(i) == haversineDistance(calReq.lat, calReq.lng,
                                           calLocations[i].latitude,
                                           calLocations[i].longitude)
              r == calNearest.index
          IN  /\ r = 0 <=> onDate = {}
              /\ r # 0
                    => /\ r \in onDate
                       /\ \A i \in onDate : Dist(r) <= Dist(i)
                       /\ \A i \in onDate : Dist(i) = Dist(r) => r <= i

\* A call for a date that the second and third location share, both at the
\* same distance from the user, has returned the second.
C17_Witness ==
    /\ calNearest.called
    /\ calReq.lat = 52
    /\ Len(calLocations) = 3
    /\ calNearest.index = 2
    /\ calLocations[1].date # calNearest.date
    /\ calLocations[2].date = calNearest.date
    /\ calLocations[3].date = calNearest.date
    /\ calLocations[2].latitude = 53
    /\ calLocations[3].latitude = 51

\* Whether a location has been geocoded: (0,0) means it has not.
Geocoded(l) == ~(l.latitude = 0 /\ l.longitude = 0)

\* C18: in the personalized feed a location with coordinates (0,0) is never
\* the nearest site of an event, and the event of a date none of whose
\* locations has been geocoded carries an empty location string.
C18_UngeocodedNeverNearest ==
    (calReq.personal /\ calPc \in {"built", "sorted", "served"})
       => \A i \in DOMAIN calEvents :
             LET skips == calGroups[calEvents[i].date]
             IN  \/ calEvents[i].location = << >>
                    /\ \A k \in DOMAIN skips : ~Geocoded(skips[k])
                 \/ \E k \in DOMAIN skips :
                       /\ Geocoded(skips[k])
                       /\ calEvents[i].location = LocationText(skips[k])

\* A personalized feed has been served in which the event of a date whose
\* only location was not geocoded names that location.
C18_Witness ==
    /\ calReq.personal
    /\ calPc = "served"
    /\ \E i \in DOMAIN calEvents :
          LET skips == calGroups[calEvents[i].date]
          IN  /\ Len(skips) = 1
              /\ ~Geocoded(skips[1])
              /\ calEvents[i].location = LocationText(skips[1])
              /\ \E n \in DOMAIN calFeed :
                    /\ calFeed[n].name = "LOCATION"
                    /\ calFeed[n].text = escapeICalText(LocationText(skips[1]))

\* What the handler does: every event of the personalized feed names the
\* location of its date nearest to the user, geocoded or not.
C18_EveryEventNamesNearest ==
    (calReq.personal /\ calPc \in {"built", "sorted", "served"})
       => \A i \in DOMAIN calEvents :
             LET skips == calGroups[calEvents[i].date]
             IN  \E k \in DOMAIN skips :
                    /\ calEvents[i].location = LocationText(skips[k])
                    /\ \A m \in DOMAIN skips :
                          haversineDistance(calReq.lat, calReq.lng,
                              skips[k].latitude, skips[k].longitude)
                             <= haversineDistance(calReq.lat, calReq.lng,
                                    skips[m].latitude, skips[m].longitude)

\* The dates of the VEVENT blocks of the feed, in feed order.
FeedDates ==
    LET starts == SelectSeq(calFeed,
                      LAMBDA line : line.name = "DTSTART;TZID=Europe/London")
    IN  [i \in DOMAIN starts |-> starts[i].date - 9]

\* C19: in the feed of either handler the VEVENT blocks are in strictly
\* ascending order of date, whatever order the map yielded the dates in,
\* and each date of the list has exactly one block.
C19_EventsAscending ==
    calPc = "served"
       => /\ \A i, j \in DOMAIN FeedDates :
                i < j => FeedDates[i] < FeedDates[j]
          /\ {DayOf(FeedDates[i]) : i \in DOMAIN FeedDates} = DaysListed
          /\ {calOrder[i] : i \in DOMAIN calOrder}
                = {FeedDates[i] : i \in DOMAIN FeedDates}

\* A feed of two events has been served after the map yielded the later
\* date first.
C19_Witness ==
    /\ calPc = "served"
    /\ Len(calOrder) = 2
    /\ calOrder[1] > calOrder[2]
    /\ Len(FeedDates) = 2
    /\ FeedDates[1] < FeedDates[2]

\* The escaped form of a character of an iCal text.
EscapedChar(c) ==
    IF c = "\\" THEN <<"\\", "\\">>
    ELSE IF c = ";" THEN <<"\\", ";">>
    ELSE IF c = "," THEN <<"\\", ",">>
    ELSE IF c = "\n" THEN <<"\\", "n">>
    ELSE <<c>>
Escaped(text) == Concat([i \in DOMAIN text |-> EscapedChar(text[i])])

\* The lines of the k-th VEVENT block of the feed.
FeedBlock(k) ==
    LET Begins == {i \in DOMAIN calFeed : calFeed[i].name = "BEGIN:VEVENT"}
        Ends == {i \in DOMAIN calFeed : calFeed[i].name = "END:VEVENT"}
        b == CHOOSE i \in Begins :
                 Cardinality({j \in Begins : j <= i}) = k
        e == CHOOSE i \in Ends : Cardinality({j \in Ends : j <= i}) = k
    IN  SubSeq(calFeed, b, e)

\* C20: the feed has a LOCATION line for an event iff the event's location
\* string is not empty: an event with an empty location has no LOCATION
\* line, an event with a location has one, whose value is the escaped
\* location text.
C20_LocationLineIffLocation ==
    calPc = "served"
       => \A k \in DOMAIN calEvents :
             LET lines == SelectSeq(FeedBlock(k),
                                    LAMBDA line : line.name = "LOCATION")
             IN  IF calEvents[k].location = << >>
                     THEN lines = << >>
                     ELSE /\ Len(lines) = 1
                          /\ lines[1].text = Escaped(calEvents[k].location)

\* A personalized feed has been served with a LOCATION line in which the
\* semicolon of the address and the commas are escaped.
C20_Witness ==
    /\ calPc = "served"
    /\ calReq.personal
    /\ \E k \in DOMAIN calEvents :
          /\ calEvents[k].location
                = <<"B", ";", ",", " ", "S", "W", "1", ",", " ", "L", ",", " ",
                    "U", "K">>
          /\ \E i \in DOMAIN calFeed :
                /\ calFeed[i].name = "LOCATION"
                /\ calFeed[i].text
                      = <<"B", "\\", ";", "\\", ",", " ", "S", "W", "1", "\\",
                          ",", " ", "L", "\\", ",", " ", "U", "K">>

\* The UID every feed is to give the events of 1 to 6 January 1970.
UidOfDay ==
    <<"85c14296d9598554", "eeb1b3db0ca0613e", "2063a79117bae353",
      "98fe137db91af484", "cc3ade1b392e26d3", "c96ed1bdaf05466c">>

\* C21: the UID of an event depends on its date only: whenever it is
\* generated, from whatever list and for whatever user, the event of a date
\* gets the one UID of that date, the UIDs of different dates differ, and
\* every UID ends with @wheremegaskip.com.
C21_UidFromDateOnly ==
    /\ \A d, e \in DOMAIN UidOfDay : d # e => UidOfDay[d] # UidOfDay[e]
    /\ calPc = "served"
          => \A k \in DOMAIN calEvents :
                LET block == FeedBlock(k)
                    day == DayOf(block[4].date - 9)
                IN  /\ block[2].name = "UID"
                    /\ block[4].name = "DTSTART;TZID=Europe/London"
                    /\ block[2].text
                          = <<UidOfDay[day + 1], "@wheremegaskip.com">>

\* A personalized feed generated at the later instant has given the events
\* of two dates the UIDs of those dates.
C21_Witness ==
    /\ calPc = "served"
    /\ now = 1
    /\ calReq.personal
    /\ Len(calEvents) = 2
    /\ FeedBlock(1)[2].text = <<"85c14296d9598554", "@wheremegaskip.com">>
    /\ FeedBlock(2)[2].text = <<"eeb1b3db0ca0613e", "@wheremegaskip.com">>

\* The RFC 5545 rules for reading an escaped text: backslash-n and
\* backslash-N are a newline, a backslash before any other character stands
\* for that character.
RECURSIVE Unescape(_)
Unescape(text) ==
    IF text = << >>
        THEN << >>
        ELSE IF Head(text) = "\\" /\ Len(text) >= 2
            THEN <<IF text[2] \in {"n", "N"} THEN "\n" ELSE text[2]>>
                    \o Unescape(SubSeq(text, 3, Len(text)))
            ELSE <<Head(text)>> \o Unescape(Tail(text))

\* C22: escapeICalText round-trips: reading the escaped text by the RFC 5545
\* rules gives back the text, for every text of commas, semicolons,
\* backslashes, newlines and ordinary characters.
C22_EscapeRoundTrips ==
    calPc = "escaped" => Unescape(escOut) = escIn

\* A text with a literal backslash followed by the letter n, a newline, a
\* comma and a semicolon has been escaped.
C22_Witness ==
    /\ calPc = "escaped"
    /\ escIn = <<"\\", "n", "\n", ",">>
    /\ escOut = <<"\\", "\\", "n", "\\", "n", "\\", ",">>

----------------------------------------------------------------------------
(* Properties of the HTTP shell *)

\* The personalized-feed paths of the model whose postcode, unescaped,
\* matches the postal-code grammar: "SW1 5TU" and "sw1 5tu".
GrammaticalPaths ==
    {<<"/", "c", "a", "l", "e", "n", "d", "a", "r", "/", "S", "W", "1", "%",
       "2", "0", "5", "T", "U", ".", "i", "c", "s">>,
     <<"/", "c", "a", "l", "e", "n", "d", "a", "r", "/", "s", "w", "1", "+",
       "5", "t", "u", ".", "i", "c", "s">>}

\* The request has made no step of getSkipLocations: it holds no lock and
\* has read nothing of the cache.
NoCacheAccess(p) ==
    /\ ~hLog[p].looked
    /\ pc[p] = "idle"
    /\ hist[p] = NoHist
    /\ p \notin readers \cup writers

\* C23: a request for a personalized feed whose postcode does not match the
\* postal-code grammar is answered 400 before any geocoding call or scrape;
\* one whose postcode matches but cannot be geocoded is answered 400
\* without any scrape or cache access.
C23_BadPostcodeAnswered400 ==
    \A p \in Procs :
        /\ (Route(hReq[p]) = "postcode" /\ hReq[p] \notin GrammaticalPaths)
              => /\ hPc[p] = "responded"
                 /\ hResp[p].status = 400
                 /\ ~hLog[p].geocoded
                 /\ p \notin HandlerGeocoding \cup ScrapeGeocoding
                 /\ hGeo[p] = NoGeo
                 /\ NoCacheAccess(p)
        /\ hLog[p].found = "no"
              => /\ hReq[p] \in GrammaticalPaths
                 /\ hPc[p] = "responded"
                 /\ hResp[p].status = 400
                 /\ hGeo[p] = NoGeo
                 /\ NoCacheAccess(p)

\* One request with a postcode that is no postcode and one whose postcode
\* was not found have both been answered 400, while nothing is cached.
C23_Witness ==
    \E p, q \in Procs :
        /\ Route(hReq[p]) = "postcode"
        /\ hReq[p] \notin GrammaticalPaths
        /\ hResp[p] = BadRequest("Invalid postcode format")
        /\ hReq[q] \in GrammaticalPaths
        /\ hLog[q].found = "no"
        /\ hResp[q] = BadRequest("Could not find postcode location")
        /\ cacheData = NilList

\* The error texts the handlers send with status 500.
ServerErrorTexts ==
    {"Failed to fetch skip locations", "Failed to generate calendar"}

\* C24: whenever getSkipLocations fails, the page and the calendar
\* endpoints answer 500 with an error body; no request whose lookup failed
\* is answered 200 with an empty or partial list or feed.
C24_LookupFailureAnswered500 ==
    \A p \in Procs :
        (hPc[p] = "responded" /\ hLog[p].looked)
           => /\ ret[p].err # "none"
                    => /\ hResp[p].status = 500
                       /\ hResp[p].body \in ServerErrorTexts
                       /\ hResp[p].list = NilList
              /\ hResp[p].status = 200
                    => /\ ret[p].err = "none"
                       /\ ret[p].src \in {"cache", "scrape"}
                       /\ hResp[p].list = ret[p].list
                       /\ ~hResp[p].list.isNil

\* The page and a personalized feed have both been answered 500 after
\* their scrapes failed.
C24_Witness ==
    \E p, q \in Procs :
        /\ Route(hReq[p]) = "index"
        /\ hResp[p] = ServerError("Failed to fetch skip locations")
        /\ ret[p].err = "scraping failed"
        /\ Route(hReq[q]) = "postcode"
        /\ hLog[q].found = "yes"
        /\ hResp[q] = ServerError("Failed to generate calendar")
        /\ ret[q].err = "scraping failed"

----------------------------------------------------------------------------
(* Properties of the default TTL.  A tick of the clock is one hour. *)

\* A call makes one of its two checks of the cache in this step.
Checks(p) == pc[p] \in {"check1", "check2"} /\ pc'[p] # pc[p]

\* The check of this step lets the call return the cached list.
ChecksHit(p) == pc'[p] = "done" /\ ret'[p].list = cacheData

\* C25 as the claim states it: with no TTL configured a cached list is a
\* hit for 3 hours; every check before t + 3h returns it without scraping
\* and a check at or after t + 3h goes on to scrape.
C25_DefaultTTLThreeHours ==
    [][\A p \in Procs :
          (Checks(p) /\ ~envTTL.set /\ ~cacheData.isNil)
             => (ChecksHit(p) <=> now - cacheTimestamp < 3)]_vars

\* C25, amended: with no TTL configured a cached list is a hit for 1 hour;
\* every check before t + 1h returns it without scraping, a first check at
\* or after t + 1h goes on to the exclusive section and a double-check at
\* or after t + 1h goes on to scrape.
C25_DefaultTTLOneHour ==
    [][\A p \in Procs :
          (Checks(p) /\ ~envTTL.set /\ ~cacheData.isNil)
             => /\ ChecksHit(p) <=> now - cacheTimestamp < 1
                /\ now - cacheTimestamp >= 1
                      => pc'[p] = IF pc[p] = "check1" THEN "lock"
                                  ELSE "scraping"]_vars

\* With no TTL configured, a call is scraping again because the list cached
\* one hour ago had expired at its double-check, while another call was
\* served that list from the cache.
C25_Witness ==
    /\ ~envTTL.set
    /\ \E p, q \in Procs :
          /\ pc[p] = "scraping"
          /\ ~hist[p].snapData.isNil
          /\ now - hist[p].snapTime = 1
          /\ ret[q].src = "cache"
          /\ ret[q].list = hist[p].snapData

----------------------------------------------------------------------------
(* Properties of the outbound calls *)

\* C26: every outbound call has a finite timeout, so an upstream that never
\* answers cannot hold the exclusive refresh section forever: a scrape in
\* progress ends, and a caller waiting for the lock gets it.
C26_ScrapeAlwaysEnds ==
    \A p \in Procs :
        /\ (pc[p] = "scraping") ~> (pc[p] # "scraping")
        /\ (pc[p] \in {"call", "lock", "lockWait"}) ~> (pc[p] = "done")

\* The fetch of the council page is in flight inside the exclusive section
\* while another request waits for the lock.
C26_Witness ==
    \E p, q \in Procs :
        /\ pc[p] = "scraping"
        /\ writers = {p}
        /\ hGeo[p].fetch = "inflight"
        /\ pc[q] = "lock"

\* What the clients' timeouts give: a geocoding call in flight always
\* returns, to the scrape and to the handler.
C26_GeocodingAlwaysReturns ==
    \A p \in Procs :
        /\ hGeo[p].inflight ~> ~hGeo[p].inflight
        /\ (hPc[p] = "geocoding") ~> (hPc[p] # "geocoding")

----------------------------------------------------------------------------
(* Properties of the candidate lines *)

\* The locations the list items of an element give, one candidate line an
\* item, those without an address discarded.
FromItems(el) ==
    SelectSeq([i \in 1 .. Len(el.items) |->
                  parseLocationLine(el.items[i], DateOf(0))],
              LAMBDA l : l.address # << >>)

\* C27: the whole text of an element is parsed as one candidate line only
\* when the element has no list items at all; when it has list items, only
\* they are candidates, even if every one of them is discarded.
C27_WholeTextOnlyWithoutItems ==
    (scrapePc = "parsed" /\ element.items # << >>)
       => parsed = FromItems(element)

\* A list of two items, both discarded, whose text as a whole has entered
\* the list as a location.
C27_Witness ==
    /\ scrapePc = "parsed"
    /\ element.items = <<<<"b", "y", " ">>, <<",">>>>
    /\ FromItems(element) = << >>
    /\ Len(parsed) = 1
    /\ parsed[1].address = <<"b", "y">>

\* What parseLocations does: the whole text is a candidate exactly when no
\* list item gave a location, whether the element has items or not.
C27_WholeTextWhenNoItemKept ==
    scrapePc = "parsed"
       => LET whole == parseLocationLine(element.text, DateOf(0))
          IN  IF FromItems(element) # << >>
                  THEN parsed = FromItems(element)
              ELSE IF whole.address # << >>
                  THEN parsed = <<whole>>
              ELSE parsed = << >>

----------------------------------------------------------------------------
(* Properties of the accesses to the shared cache state *)

\* Request p executes InitCache's assignment cache.ttl = minutes in this
\* step.
WritesTTL(p) == pc[p] \in {"idle", "done"} /\ pc'[p] = "call" /\ envTTL.set

\* Request p is inside a section of getSkipLocations that reads cache.data,
\* cache.timestamp and cache.ttl.
ReadsCache(p) == pc[p] \in {"check1", "check2"}

\* C28: every read and every write of the shared cache state (list,
\* timestamp, TTL) happens under the cache lock in the matching mode; no
\* request writes the TTL through InitCache while another reads it in
\* getSkipLocations.
C28_CacheStateUnderLock ==
    [][/\ \A p \in Procs :
             /\ pc[p] = "check1"
                   => /\ p \in readers
                      /\ \A w \in writers : pc[w] = "lockWait"
             /\ pc[p] \in {"check2", "store1", "store2"}
                   => writers = {p} /\ readers = {}
       /\ (cacheData' # cacheData \/ cacheTimestamp' # cacheTimestamp)
             => \E p \in Procs : pc[p] \in {"store1", "store2"}
       /\ \A p \in Procs :
             WritesTTL(p) => \A q \in Procs \ {p} : ~ReadsCache(q)]_vars

\* CACHE_TTL_MINUTES is set; one request holds the read lock at its first
\* check while another has just written cache.ttl in InitCache.
C28_Witness ==
    \E p, q \in Procs :
        /\ envTTL.set
        /\ pc[q] = "check1"
        /\ q \in readers
        /\ hist[q].first = "na"
        /\ pc[p] = "call"
        /\ cacheTTL = envTTL.ttl
        /\ cacheTTL # DefaultTTL

\* What the lock gives: the list and the timestamp are read under the read
\* or the write lock and written under the write lock only.
C28_ListAndTimestampUnderLock ==
    [][/\ \A p \in Procs :
             /\ pc[p] = "check1"
                   => /\ p \in readers
                      /\ \A w \in writers : pc[w] = "lockWait"
             /\ pc[p] \in {"check2", "store1", "store2"}
                   => writers = {p} /\ readers = {}
       /\ (cacheData' # cacheData \/ cacheTimestamp' # cacheTimestamp)
             => \E p \in Procs : pc[p] \in {"store1", "store2"}]_vars

----------------------------------------------------------------------------
(* Properties of termination *)

\* A call of getSkipLocations is in progress.
InCall(p) == pc[p] \notin {"idle", "done"}

\* Some call in progress can take a step.
SomeCallCanStep ==
    \E p \in Procs :
        \/ pc[p] = "call" /\ writers = {}
        \/ pc[p] = "lock" /\ writers = {}
        \/ pc[p] = "lockWait" /\ readers = {}
        \/ pc[p] \in {"check1", "check2", "scraping", "store1", "store2"}

\* C29: if every scrape ends, every getSkipLocations call returns, with any
\* number of callers: a caller that has returned holds no lock on any path,
\* no caller holds the read lock while it waits for the exclusive lock, and
\* no state is reached where calls are in progress and none can step.
C29_EveryCallReturns ==
    /\ [](\A p \in Procs :
             /\ ~InCall(p) => p \notin readers \cup writers
             /\ pc[p] \in {"lock", "lockWait"} => p \notin readers)
    /\ []((\E p \in Procs : InCall(p)) => SomeCallCanStep)
    /\ \A p \in Procs : InCall(p) ~> (pc[p] = "done")

\* All locks are free after one call has scraped and stored the list and
\* the other, which waited for the exclusive lock meanwhile, has returned
\* that list from its double-check.
C29_Witness ==
    \E p, q \in Procs :
        /\ pc[p] = "done"
        /\ hist[p].refreshedWhileWaiting
        /\ hist[p].second = "fresh"
        /\ ret[p].src = "cache"
        /\ pc[q] = "done"
        /\ ret[q].src = "scrape"
        /\ ret[p].list = ret[q].list
        /\ readers = {}
        /\ writers = {}

----------------------------------------------------------------------------
(* Properties of the geocoding calls across requests *)

\* C30: across all concurrent requests no two geocoding calls are in flight
\* at the same time: the call a personalized-feed handler makes for the
\* user's postcode overlaps neither a call of a scrape in progress nor the
\* call of another handler.
C30_OneGeocodingCallInFlight ==
    Cardinality(HandlerGeocoding) + Cardinality(ScrapeGeocoding) <= 1

\* A handler's call for the user's postcode is in flight while the scrape of
\* another request, inside the exclusive section, has a call of its
\* geocoding loop in flight.
C30_Witness ==
    \E p, q \in Procs :
        /\ hPc[p] = "geocoding"
        /\ hLog[p].geocoded
        /\ hLog[p].found = "na"
        /\ pc[q] = "scraping"
        /\ writers = {q}
        /\ hGeo[q].inflight

\* What the exclusive section gives: the geocoding calls of the scrapes
\* never overlap each other.
C30_OneScrapeGeocodingCallInFlight ==
    Cardinality(ScrapeGeocoding) <= 1

============================================================================
